---------------------------- MODULE Spec2Model ----------------------------
(***************************************************************************)
(* A model of the jigsaw puzzle generator (jigsaw_puzzle_generator/src/    *)
(* lib.rs): axis partitioning, the layout search, the stateful edge        *)
(* contour generator, the edge grid built by JigsawGenerator::generate and *)
(* the outline and crop rectangle computed by JigsawPiece::new.            *)
(*                                                                         *)
(* Numbers.  The code computes in f32; the model computes the same         *)
(* expressions in exact integer arithmetic:                                *)
(*   - a coordinate or a length is an integer number of hundredths of a    *)
(*     pixel (every coordinate of the code went through round());          *)
(*   - a coefficient (tab_size, jitter, a..e) is an integer number of      *)
(*     1/100000;                                                           *)
(*   - normalise() is tabulated in thousandths for the seeds the model     *)
(*     reaches (the table holds floor(1000 * frac(sin(seed) * 10000)) as   *)
(*     f32 arithmetic gives it);                                           *)
(*   - an image dimension and a crop field is a whole number of pixels.    *)
(* The rounding error of single f32 operations is not modelled.            *)
(***************************************************************************)
EXTENDS Integers, Sequences, FiniteSets, TLC

VARIABLES run, lay

vars == <<run, lay>>

---------------------------------------------------------------------------
(* Bounds of the model *)

\* columns and rows of the grids that are generated in full
MaxGrid == 3
\* explicit seeds 0..MaxSeed (besides the absent seed)
MaxSeed == 1
\* requested piece counts 1..MaxPieces of the layout search
MaxPieces == 36
\* columns of the one-row grid whose pieces are narrower than 0.01 px
ManyColumns == 303

---------------------------------------------------------------------------
(* Program constants *)

DEFAULT_TAB_SIZE == 20
DEFAULT_JITTER == 5

\* units
Centi == 100
CoefUnit == 100000
NormUnit == 1000

None == [some |-> FALSE, val |-> 0]
Some(v) == [some |-> TRUE, val |-> v]
\* Option::unwrap_or_default: an absent number is 0, whatever the default
unwrap_or_default(opt, default) == IF opt.some THEN opt.val ELSE 0
unwrap_or(opt, default) == IF opt.some THEN opt.val ELSE default

Abs(x) == IF x < 0 THEN -x ELSE x
Min2(a, b) == IF a <= b THEN a ELSE b
Max2(a, b) == IF a >= b THEN a ELSE b

\* floor of n / d for d > 0
FloorDiv(n, d) == n \div d

\* f32::round of n / d (d > 0): to the nearest integer, halves away from zero
RoundDiv(n, d) ==
    LET m == Abs(n)
        q == m \div d
        r == m % d
        v == IF 2 * r >= d THEN q + 1 ELSE q
    IN IF n < 0 THEN -v ELSE v

\* round(x) for x = n / d pixels: (x * 100.0).round() / 100.0, in hundredths
round(n, d) == RoundDiv(Centi * n, d)

---------------------------------------------------------------------------
(* normalise(seed) = frac(sin(seed) * 10000), in thousandths, seed = 0.. *)
NormaliseTable ==
    << 
       0, 709, 973, 200, 975, 756, 845, 865, 582, 185, 788, 97, 270, 670, 74, 878, 966, 25, 127, 772,
       453, 556, 486, 795, 215, 482, 584, 759, 57, 661, 683, 623, 267, 118, 827, 173, 211, 618, 685, 954,
       131, 773, 784, 251, 19, 35, 883, 731, 453, 473, 251, 291, 275, 251, 109, 448, 489, 647, 726, 379,
       893, 822, 193, 557, 260, 286, 488, 800, 722, 151, 906, 545, 233, 280, 537, 183, 76, 202, 784, 873,
       113, 120, 287, 644, 902, 243, 415, 822, 983, 694, 966, 875, 338, 178, 480, 616, 876, 77, 181, 931,
       343, 257, 267, 886, 775, 647, 574, 817, 184, 425, 573, 485, 43, 180, 804, 353, 614, 20, 478, 958,
       111, 152, 131, 965, 129, 595, 908, 300, 376, 265, 940, 966, 835, 657, 248, 686, 667, 855, 477, 801,
       396, 713, 49, 545, 784, 451, 692, 439, 666, 513, 235, 498, 205, 5, 796, 879, 154, 514, 241, 197,
       252, 922, 496, 898, 328, 972, 915, 498, 266, 0, 494, 909, 591, 894, 379, 654, 522, 897, 752, 221,
       473, 486, 189, 803, 843, 211, 760, 290, 763, 179, 993, 85, 616, 434, 136, 546, 300, 58, 214, 11,
       27, 97, 184, 96, 203, 24, 581, 949, 679, 666, 185, 521, 529, 293, 994, 456, 584, 183, 754, 852,
       987, 388, 508, 534, 790, 50, 561, 585, 230, 623, 357, 158, 232, 392, 166, 866, 678, 421, 238, 906,
       452, 617, 880, 906, 636, 874, 600, 71, 521, 368, 719, 61, 122, 237, 988, 83, 919, 428, 356, 931,
       396, 187, 83, 527, 174, 101, 540, 681, 650, 531, 540, 107, 569, 1, 885, 146, 143, 42, 210, 827,
       905, 486, 502, 525, 639, 715, 852, 590, 956, 789, 456, 141, 259, 989, 900, 180, 612, 690, 375, 232,
       441, 359, 528, 325, 67, 960, 382, 645, 30, 13, 876, 717, 84, 905, 70, 333, 874, 397, 388, 250,
       445, 83, 123, 15, 347, 637, 886, 348, 847, 389, 183, 88, 957, 788, 721, 329, 473, 928, 108, 255,
       107, 32, 396, 16, 96, 41, 459, 626, 638, 555, 671, 172, 498, 99, 546, 698, 126, 151, 98, 221,
       157, 865, 906, 461, 89, 463, 900, 474, 56, 884, 350, 321, 58, 673, 929, 424, 609, 814, 364, 655,
       218, 220, 329, 232, 563, 269, 100, 481, 884, 429, 99, 827, 150, 26, 965, 69, 524, 335, 580, 679,
       806, 247, 567, 739, 435, 457, 484, 773, 25, 140, 544, 252, 81, 237, 852, 393, 255, 604, 145, 621,
       882, 812, 355, 144, 548, 902, 546, 58, 941, 411, 538, 675, 807, 473, 396, 919, 645, 426, 280, 302,
       52, 700, 6, 715, 152, 167, 424, 849, 725, 227, 162, 176, 201, 65, 56, 396, 473, 702, 349, 509,
       425, 218, 886, 702, 748, 727, 666, 818, 519, 9, 745, 678, 197, 464, 761, 642, 862, 129, 302, 898,
       166, 807, 629, 831, 29, 169, 857, 863, 193, 891, 613, 516, 43, 229, 981, 663, 567, 193, 436, 953,
       282, 283, 798, 617, 553, 553, 205, 686, 172, 504, 266, 704, 184, 576, 906, 41, 292, 441, 820, 430,
       46, 348, 767, 755, 757, 222, 26, 621, 399, 725, 165, 176, 958, 391, 78, 706, 408, 515, 983, 221,
       71, 479, 687, 971, 556, 987, 156, 665, 627, 648, 159, 595, 124, 86, 130, 826, 601, 637, 10, 91,
       186, 351, 766, 82, 358, 81, 741, 488, 461, 724, 484, 631, 109, 346, 962, 712, 472, 640, 766, 385,
       837, 142, 205, 838, 660, 879, 814, 499, 345, 818, 378, 600, 635, 542, 800, 450, 569, 419, 231, 211,
       824, 226, 41, 775, 838, 207, 653, 642, 792, 279, 176, 91, 324, 364, 13, 822, 104, 12, 283, 525,
       763, 613, 619, 522, 353, 162, 687, 505, 284, 348, 820, 586, 698, 779, 420, 372, 566, 275, 183, 267,
       474, 447, 541, 887, 908, 374, 975, 37, 212, 21, 532, 155, 345, 895, 24, 565, 390, 194, 625, 155,
       330, 708, 160, 670, 856, 281, 583, 82, 973, 631, 466, 207, 890, 842, 711, 281, 661, 873, 235, 927,
       409, 887, 361, 64, 805, 115, 39, 882, 910, 113, 793, 823, 270, 808, 455, 663, 8, 876, 237, 904,
       705, 265, 330, 588, 733, 414, 630, 203, 775, 616, 602, 35, 722, 603, 581, 927, 423, 320, 495, 635,
       283, 100, 779, 217, 156, 420, 389, 859, 525, 368, 698, 225, 884, 474, 471, 80, 974, 583, 477, 209,
       776, 175, 769, 110, 314, 628, 134, 80, 261, 114, 729, 177, 542, 586, 622, 352, 623, 132, 67, 655,
       833, 738, 177, 697, 609, 461, 4, 189, 797, 915, 319, 666, 599, 151, 497, 947, 885, 488, 989, 750,
       288, 360, 650, 836, 640, 739, 573, 182, 267, 333, 46, 588, 860, 794, 493, 650, 184, 165, 585, 1,
       696, 275, 961, 370, 64, 57, 768, 519, 687, 955, 863, 795, 329, 415, 205, 501, 989, 409, 411, 78,
       970, 182, 319, 781, 177, 157, 28, 583, 592, 518, 603, 123, 608, 429, 74, 70, 477, 440, 959, 674,
       718, 318, 437, 956, 968, 86, 298, 56, 64, 234, 277, 151, 562, 581, 309, 984, 742, 961, 98, 378,
       657, 89, 421, 649, 194, 586, 438, 115, 605, 991, 664, 493, 621, 461, 812, 932, 387, 967, 221, 482,
       60, 38, 166, 305, 168, 14, 123, 186, 463, 620, 112, 697, 778, 229, 714, 646, 279, 334, 293, 707,
       32, 600, 52, 309, 565, 135, 506, 693, 613, 727, 320, 699, 540, 880, 613, 603, 715, 517, 157, 615,
       652, 996, 494, 781, 556, 576, 151, 596, 552, 222, 587, 667, 209, 932, 437, 272, 153, 3, 90, 54,
       882, 213, 768, 915, 196, 375, 119, 306, 675, 492, 647, 243, 280, 631, 939, 476, 948, 844, 928, 954,
       865, 632, 593, 175, 451, 563, 895, 922, 913, 41, 956, 603, 891, 905, 774, 372, 232, 79, 306, 762,
       133, 518, 418, 428, 417, 212, 683, 560, 229, 330, 350, 381, 946, 108, 826, 333, 253, 325, 268, 392,
       795, 906, 665, 583, 55, 755, 77, 619, 833, 718, 428, 859, 82, 422, 620, 378, 202, 32, 628, 274,
       560, 115, 750, 146, 666, 734, 712, 822, 926, 327, 990, 594, 129, 512, 796, 543, 337, 928, 23, 999,
       586, 833, 278, 391, 51, 83, 877, 530, 273, 833, 565, 950, 849, 507, 93, 547, 8, 713, 184, 976,
       500, 566, 95, 350, 221, 95, 801, 402, 695, 616, 986, 286, 452, 548, 639, 970, 898, 965, 508, 802,
       808, 899, 223, 274, 333, 178, 939, 417, 685, 399, 621, 830, 504, 812, 15, 176, 549, 979, 893, 940,
       643, 904, 688, 450, 804, 471, 119, 577, 245, 76, 490, 507, 166, 125, 254, 875, 37, 871, 578, 640,
       532, 738, 538, 166, 317, 967, 411, 197, 551, 385, 221, 415, 667, 878, 949, 520, 733, 641, 385, 307,
       982, 178, 826, 991, 937, 986, 177, 853, 129, 711, 646, 931, 663, 113, 844, 438, 24, 227, 534, 643,
       722, 286, 759, 560, 32, 876, 935, 640, 821, 80, 571, 804, 293, 475, 95, 330, 968, 543, 919, 636,
       941, 264, 634, 350, 201, 152, 891, 652, 837, 953, 692, 238, 489, 249, 621, 391, 505, 261, 894, 171,
       213, 886, 842, 642, 549, 782, 128, 681, 401, 428, 749, 232, 276, 184, 688, 131, 615, 469, 529, 105,
       560, 418, 583, 211, 112, 629, 721, 317, 256, 945, 86, 875, 297, 800, 276, 657, 896, 46, 989, 936,
       804, 575, 667, 680, 680, 67, 196, 926, 557, 350, 636, 961, 642, 440, 28, 947, 641, 229, 751, 219,
       571, 389, 489, 687, 415, 532, 999, 281, 227, 682, 607, 216, 199, 603, 409, 614, 266, 522, 974, 163,
       364, 64, 696, 546, 593, 112, 192, 939, 368, 738, 616, 551, 787, 979, 230, 354, 757, 964, 823, 789,
       870, 160, 750, 105, 214, 253, 943, 19, 505, 908, 222, 878, 267, 367, 252, 62, 82, 170, 854, 817,
       696, 116, 830, 807, 905, 263, 688, 204, 905, 925, 493, 920, 222, 865, 122, 569, 276, 656, 857, 816,
       752, 46, 181, 760, 917, 927, 669, 832, 600, 81, 856, 45, 807, 575, 306, 35, 211, 631, 619, 866,
       957, 689, 416, 437, 539, 578, 890, 641, 527, 603, 911, 888, 774, 72, 595, 598, 186, 416, 733, 36,
       63, 367, 465, 304, 633, 736, 149, 865, 739, 479, 501, 437, 781, 888, 195, 712, 294, 561, 307, 783,
       40, 420, 668, 643, 878, 205, 90, 423, 746, 907, 199, 716, 242, 42, 312, 583, 236, 606, 524, 942,
       205, 361, 472, 6, 187, 99, 2, 774, 407, 85, 777, 103, 288, 764, 238, 962, 812, 693, 923, 964,
       944, 895, 281, 153, 727, 677, 364, 406, 897, 759, 870, 726, 272, 102, 803, 83, 56, 541, 837, 275,
       327, 582, 302, 921, 224, 668, 362, 534, 681, 835, 415, 186, 79, 144, 109, 474, 518, 732, 870, 450,
       745, 510, 4, 745, 732, 608, 283, 175, 253, 349, 670, 173, 67, 392, 744, 295, 70, 164, 750, 792,
       980, 56, 432, 945, 83, 56, 953, 508, 188, 308, 426, 676, 583, 561, 649, 497, 660, 961, 193, 979,
       383, 333, 389, 942, 634, 357, 402, 2, 637, 730, 368, 879, 593, 381, 550, 960, 442, 147, 706, 78,
       93, 93, 86, 894, 18, 545, 46, 581, 541, 83, 498, 670, 39, 253, 689, 485, 929, 258, 651, 666,
       158, 590, 74, 616, 834, 517, 792, 483, 531, 244, 78, 679, 637, 292, 593, 292, 722, 716, 971, 784,
       76, 63, 745, 25, 296, 892, 859, 437, 176, 964, 625, 167, 740, 716, 958, 375, 725, 475, 174, 18,
       752, 909, 367, 654, 583, 80, 797, 380, 824, 234, 72, 116, 489, 185, 995, 723, 712, 328, 12, 442,
       614, 300, 896, 664, 22, 182, 850, 84, 635, 565, 119, 471, 459, 269, 117, 695, 719, 10, 352, 590,
       188, 947, 912, 330, 85, 494, 744, 420, 950, 485, 408, 269, 303, 437, 225, 884, 559, 193, 112, 78,
       844, 870, 680, 357, 243, 78, 295, 619, 336, 540, 9, 203, 65, 115, 913, 43, 872, 416, 471, 149,
       516, 19, 700, 283, 373, 641, 924, 476, 962, 994, 727, 928, 268, 856, 949, 280, 223, 77, 248, 833,
       794, 278, 389, 691, 12, 952, 654, 60, 581, 995, 133, 669, 71, 178, 210, 329, 542, 546, 291, 204,
       415, 359, 635, 521, 173, 797, 20, 417, 226, 535, 243, 512, 416, 387, 261, 136, 551, 246, 464, 404,
       535, 105, 138, 9, 244, 451, 789, 508, 199, 609, 988, 577, 599, 994, 381, 837, 281, 132, 440, 410,
       22, 867, 302, 999, 90, 53, 558, 801, 729, 397, 330, 960, 692, 601, 895, 492, 475, 653, 291, 10,
       815, 707, 998, 636, 188, 475, 895, 457, 961, 720, 267, 476, 389, 876, 737, 932, 269, 20, 6, 144,
       23, 440, 680, 393, 466, 83, 997, 476, 901, 452, 188, 981, 228, 874, 644, 873, 714, 818, 911, 473,
       173, 767, 764, 511, 73, 294, 589, 969, 132, 140, 517, 223, 996, 93, 782, 541, 566, 791, 957, 149,
       560, 18, 980, 613, 350, 139, 918, 224, 829, 203, 427, 681, 845, 508, 477, 52, 709, 280, 979, 121,
       239, 163, 319, 510, 537, 708, 623, 604, 342, 58, 282, 394, 317, 53, 7, 356, 397, 579, 292, 651,
       715, 390, 701, 249, 443, 932, 271, 268, 318, 262, 137, 850, 70, 236, 641, 661, 920, 174, 373, 9,
       217, 668, 349, 667, 212, 613, 153, 659, 596, 451, 814, 254, 640, 55, 116, 901, 690, 168, 367, 902,
       216, 181, 755, 752, 823, 710, 25, 253, 885, 707, 853, 134, 982, 846, 319, 218, 150, 192, 692, 460,
       126, 403, 827, 845, 795, 91, 766, 472, 578, 148, 443, 974, 378, 969, 281, 428, 985, 337, 132, 480,
       201, 442, 596, 910, 500, 907, 125, 792, 876, 790, 982, 183, 854, 288, 699, 238, 398, 924, 444, 272,
       28, 82, 632, 125, 459, 146, 791, 557, 486, 601, 246, 497, 283, 749, 224, 511, 913, 238, 970, 90,
       395, 959, 369, 120, 799, 829, 702, 428, 300, 759, 360, 720, 863, 669, 628, 57, 316, 619, 780, 605,
       619, 530, 494, 960, 666, 916, 511, 699, 916, 355, 215, 139, 336, 249, 796, 703, 273, 395, 527, 326,
       222, 228, 824, 208, 890, 975, 866, 806, 429, 284, 686, 506, 664, 743, 414, 483, 772, 387, 16, 894,
       238, 644, 72, 262, 703, 696, 448, 226, 25, 710, 383, 225, 489, 979, 53, 591, 390, 87, 428, 50,
       493, 70, 388, 473, 334, 915, 789, 750, 492, 440, 662, 528, 41, 765, 556, 192, 638, 857, 242, 30,
       594, 985, 200, 711, 585, 310, 550, 240, 704, 453, 286, 16, 66, 476, 301, 747, 173, 970, 255, 910,
       693, 167, 154, 498, 891, 755, 842, 9, 273, 267, 808, 687, 221, 409, 792, 270, 581, 229, 319, 537,
       270, 106, 797, 311, 320, 504, 234, 527, 322, 560, 190, 565, 678, 832, 984, 275, 754, 230, 316, 308,
       962, 278, 775, 94, 291, 539, 980, 3, 413, 435, 924, 987, 61, 256, 827, 985, 101, 936, 295, 17,
       996, 633, 980, 590, 609, 488, 33, 275, 941, 985, 171, 355, 411, 340, 968, 269, 680, 864, 519, 948,
       52, 987, 484, 949, 848, 850, 566, 145, 232, 252, 914, 524, 5, 95, 673, 463, 721, 852, 790, 616,
       156, 76, 206, 752, 233, 937, 550, 404, 699, 3, 903, 871, 451, 471, 63, 211, 816, 594, 864, 382,
       766, 577, 868, 981, 924, 763, 856, 711, 821, 638, 584, 64, 563, 359, 962, 20, 615, 720, 124, 491,
       276, 22, 641, 552, 409, 885, 560, 459, 238, 99, 39, 28, 586, 650, 359, 50, 843, 5, 964, 108,
       500, 270, 854, 936, 991, 999, 6, 317, 335, 578, 488, 634, 870, 589, 781, 852, 332, 907, 131, 445,
       190, 296, 314, 126, 746, 736, 326, 764, 885, 417, 391, 120, 957, 80, 454, 515, 316, 425, 354, 762,
       112, 631, 925, 61, 424, 311, 919, 963, 411, 159, 908, 902, 253, 447, 432, 760, 986, 651, 113, 514,
       586, 946, 424, 756, 679, 813, 286, 423, 150, 960, 788, 226, 613, 728, 733, 715, 336, 838, 810, 916,
       933, 326, 838, 960, 254, 394, 0, 79, 548, 664, 41, 496, 80, 82, 545, 681, 643, 392, 743, 126,
       155, 773, 537, 53, 375, 524, 847, 910, 29, 257, 76, 434, 508, 661, 973, 912, 617, 874, 619, 225,
       321, 337, 118, 283, 481, 346, 764, 594, 266, 336, 238, 175, 833, 274, 198, 570, 55, 794, 892, 597,
       473, 433, 476, 771, 367, 903, 7, 474, 748, 689, 402, 859, 189, 620, 725, 215, 839, 804, 825, 795,
       926, 909, 82, 628, 856, 538, 390, 670, 3, 481, 80, 617, 146, 506, 693, 358, 239, 88, 375, 219,
       391, 321, 919, 596, 711, 591, 685, 733, 605, 987, 481, 785, 755, 490, 88, 559, 107, 889, 274, 819,
       158, 354, 289, 851, 569, 889, 150, 904, 888, 404, 643, 128, 542, 724, 737, 981, 892, 948, 415, 638
    >>

\* a usize 2^64 - k is written -k (two's complement); for those near the
\* top `seed as f32` is 2^64, and frac(sin(2^64) * 10000) is 0.985...
NormaliseTop == 985

normalise(seed) == IF seed < 0 THEN NormaliseTop ELSE NormaliseTable[seed + 1]

\* min + normalise(seed) * (max - min); max - min is a multiple of NormUnit
uniform(min, max, seed) == min + (normalise(seed) * (max - min)) \div NormUnit

\* normalise(seed) > 0.5: no tabulated value is 0.5 itself, so the floor of
\* 1000 * x is at least 500 exactly when x > 0.5
rbool(seed) == normalise(seed) >= 500

---------------------------------------------------------------------------
(* EdgeContourGenerator *)

\* dice(e, flipped, seed, jitter): the next coefficients
dice(e, flipped, seed, jitter) ==
    LET new_flipped == rbool(seed)
    IN [seed    |-> seed + 6,
        flipped |-> new_flipped,
        a       |-> IF new_flipped = flipped THEN -e ELSE e,
        b       |-> uniform(-jitter, jitter, seed + 2),
        c       |-> uniform(-jitter, jitter, seed + 3),
        d       |-> uniform(-jitter, jitter, seed + 4),
        e       |-> uniform(-jitter, jitter, seed + 5)]

\* the seeds dice(_, _, seed, _) draws a random value from
dice_draws(seed) == {seed, seed + 2, seed + 3, seed + 4, seed + 5}

tab_size_in_range(tab_size) == 5000 <= tab_size /\ tab_size <= 15000
jitter_in_range(jitter) == 0 <= jitter /\ jitter <= 13000

\* EdgeContourGenerator::new with the seed taken from a counter that all
\* generators share (one more per generator already constructed)
EdgeContourGenerator_new_shared(piece_width, piece_height, tab_size, jitter, seed) ==
    LET ts == (unwrap_or(tab_size, DEFAULT_TAB_SIZE) * CoefUnit) \div 200
        ji == (unwrap_or(jitter, DEFAULT_JITTER) * CoefUnit) \div 100
        s0 == unwrap_or(seed, 0)
                  + Cardinality({r \in DOMAIN run : run[r].pc # "start"})
    IN IF ~tab_size_in_range(ts) \/ ~jitter_in_range(ji)
       THEN [panic |-> TRUE]
       ELSE LET e0 == uniform(-ji, ji, s0 + 1)
                dc == dice(e0, FALSE, s0 + 2, ji)
            IN [panic        |-> FALSE,
                piece_width  |-> piece_width,
                piece_height |-> piece_height,
                tab_size     |-> ts,
                jitter       |-> ji,
                seed         |-> dc.seed,
                flipped      |-> dc.flipped,
                a |-> dc.a, b |-> dc.b, c |-> dc.c, d |-> dc.d, e |-> dc.e]

\* EdgeContourGenerator::new; an assert! that fails panics
EdgeContourGenerator_new(piece_width, piece_height, tab_size, jitter, seed) ==
    LET ts == (unwrap_or(tab_size, DEFAULT_TAB_SIZE) * CoefUnit) \div 200
        ji == (unwrap_or(jitter, DEFAULT_JITTER) * CoefUnit) \div 100
        s0 == unwrap_or(seed, 0)
    IN IF ~tab_size_in_range(ts) \/ ~jitter_in_range(ji)
       THEN [panic |-> TRUE]
       ELSE LET e0 == uniform(-ji, ji, s0 + 1)
                dc == dice(e0, FALSE, s0 + 2, ji)
            IN [panic        |-> FALSE,
                piece_width  |-> piece_width,
                piece_height |-> piece_height,
                tab_size     |-> ts,
                jitter       |-> ji,
                seed         |-> dc.seed,
                flipped      |-> dc.flipped,
                a |-> dc.a, b |-> dc.b, c |-> dc.c, d |-> dc.d, e |-> dc.e]

\* round(offset + coeff * length)
longitudinal_position(coeff, offset, length) ==
    RoundDiv(offset * CoefUnit + coeff * length, CoefUnit)

\* round(offset + coeff * length * (if flipped { -1.0 } else { 1.0 }))
transverse_position(coeff, offset, length, flipped) ==
    RoundDiv(offset * CoefUnit + coeff * length * (IF flipped THEN -1 ELSE 1),
             CoefUnit)

coords(self, l_coeff, t_coeff, starting_point, vertical) ==
    LET pos_1 == longitudinal_position(
                     l_coeff,
                     IF vertical THEN starting_point[2] ELSE starting_point[1],
                     IF vertical THEN self.piece_height ELSE self.piece_width)
        pos_2 == transverse_position(
                     t_coeff,
                     IF vertical THEN starting_point[1] ELSE starting_point[2],
                     IF vertical THEN self.piece_width ELSE self.piece_height,
                     self.flipped)
    IN IF vertical THEN <<pos_2, pos_1>> ELSE <<pos_1, pos_2>>

Half == CoefUnit \div 2

ep1(self, sp, vertical) ==
    coords(self, Half - self.tab_size + self.b, self.tab_size + self.c, sp, vertical)

cp1_1(self, sp, vertical) ==
    coords(self, CoefUnit \div 5, self.a, sp, vertical)

cp1_2(self, sp, vertical) ==
    coords(self, Half + self.b + self.d, -self.tab_size + self.c, sp, vertical)

ep2(self, sp, vertical) ==
    coords(self, Half + self.tab_size + self.b, self.tab_size + self.c, sp, vertical)

cp2_1(self, sp, vertical) ==
    coords(self, Half - 2 * self.tab_size + self.b - self.d,
           3 * self.tab_size + self.c, sp, vertical)

cp2_2(self, sp, vertical) ==
    coords(self, Half + 2 * self.tab_size + self.b - self.d,
           3 * self.tab_size + self.c, sp, vertical)

cp3_1(self, sp, vertical) ==
    coords(self, Half + self.b + self.d, -self.tab_size + self.b + self.d,
           sp, vertical)

cp3_2(self, sp, vertical) ==
    coords(self, (4 * CoefUnit) \div 5, self.e, sp, vertical)

IndentationSegment(sp, ep, c1, c2) ==
    [starting_point |-> sp, end_point |-> ep,
     control_point_1 |-> c1, control_point_2 |-> c2]

\* create() handed the two points of the edge in the opposite order
create_edge_reversed(self, starting_point, end_point) ==
    LET vertical == Abs(end_point[1] - starting_point[1]) < Centi
    IN [kind |-> "IndentedEdge",
        first_segment |->
            IndentationSegment(end_point,
                               ep1(self, end_point, vertical),
                               cp1_1(self, end_point, vertical),
                               cp1_2(self, end_point, vertical)),
        middle_segment |->
            IndentationSegment(ep1(self, end_point, vertical),
                               ep2(self, end_point, vertical),
                               cp2_1(self, end_point, vertical),
                               cp2_2(self, end_point, vertical)),
        last_segment |->
            IndentationSegment(ep2(self, end_point, vertical),
                               starting_point,
                               cp3_1(self, end_point, vertical),
                               cp3_2(self, end_point, vertical))]

\* the edge create() returns (the generator's state before the call decides it)
create_edge(self, starting_point, end_point) ==
    LET vertical == Abs(end_point[1] - starting_point[1]) < Centi
    IN [kind |-> "IndentedEdge",
        first_segment |->
            IndentationSegment(starting_point,
                               ep1(self, starting_point, vertical),
                               cp1_1(self, starting_point, vertical),
                               cp1_2(self, starting_point, vertical)),
        middle_segment |->
            IndentationSegment(ep1(self, starting_point, vertical),
                               ep2(self, starting_point, vertical),
                               cp2_1(self, starting_point, vertical),
                               cp2_2(self, starting_point, vertical)),
        last_segment |->
            IndentationSegment(ep2(self, starting_point, vertical),
                               end_point,
                               cp3_1(self, starting_point, vertical),
                               cp3_2(self, starting_point, vertical))]

\* the generator's state after create(): dice(self.e, false, self.seed + 2, ..)
create_state(self) ==
    LET dc == dice(self.e, FALSE, self.seed + 2, self.jitter)
    IN [self EXCEPT !.seed = dc.seed, !.flipped = dc.flipped,
                    !.a = dc.a, !.b = dc.b, !.c = dc.c, !.d = dc.d, !.e = dc.e]

StraightEdge(sp, ep) ==
    [kind |-> "StraightEdge", starting_point |-> sp, end_point |-> ep]

---------------------------------------------------------------------------
(* Bezier curves: a cubic is <<start, handle_start, handle_end, end>>, a   *)
(* line is <<start, end>>                                                  *)

IndentationSegment_to_bezier(seg, reverse) ==
    IF reverse
    THEN <<seg.end_point, seg.control_point_2, seg.control_point_1,
           seg.starting_point>>
    ELSE <<seg.starting_point, seg.control_point_1, seg.control_point_2,
           seg.end_point>>

IndentedEdge_to_beziers(edge, reverse) ==
    IF reverse
    THEN <<IndentationSegment_to_bezier(edge.last_segment, reverse),
           IndentationSegment_to_bezier(edge.middle_segment, reverse),
           IndentationSegment_to_bezier(edge.first_segment, reverse)>>
    ELSE <<IndentationSegment_to_bezier(edge.first_segment, reverse),
           IndentationSegment_to_bezier(edge.middle_segment, reverse),
           IndentationSegment_to_bezier(edge.last_segment, reverse)>>

StraightEdge_to_beziers(edge, reverse) ==
    IF reverse
    THEN << <<edge.end_point, edge.starting_point>> >>
    ELSE << <<edge.starting_point, edge.end_point>> >>

Edge_to_beziers(edge, reverse) ==
    IF edge.kind = "IndentedEdge"
    THEN IndentedEdge_to_beziers(edge, reverse)
    ELSE StraightEdge_to_beziers(edge, reverse)

bezier_start(bz) == bz[1]
bezier_end(bz) == bz[Len(bz)]

---------------------------------------------------------------------------
(* Axis partitioning and grid indices *)

\* length / 0 as f32 for length > 0, and round() of it
F32_INFINITY == [inf |-> TRUE]

\* divide_axis with the offsets rounded from i * length / piece_num, not
\* from i * piece_length
divide_axis_unrounded_step(length, piece_num) ==
    LET piece_length == IF piece_num = 0 THEN F32_INFINITY
                        ELSE round(length, piece_num)
    IN [points |-> [k \in 1..piece_num |-> round((k - 1) * length, piece_num)],
        piece_length |-> piece_length]

\* divide_axis(length, piece_num): (offsets, piece_length); for piece_num = 0
\* the range 0..0 is empty and the length is round(length / 0.0)
divide_axis(length, piece_num) ==
    LET piece_length == IF piece_num = 0 THEN F32_INFINITY
                        ELSE round(length, piece_num)
    IN [points |-> [k \in 1..piece_num |-> round((k - 1) * piece_length, Centi)],
        piece_length |-> piece_length]

\* get_border_indices without the row offset of the right edge
get_border_indices_no_row(position, number_of_columns) ==
    LET row_ind == position \div number_of_columns
    IN [top    |-> position,
        right  |-> position + 1,
        bottom |-> position + number_of_columns,
        left   |-> position + row_ind]

\* get_border_indices(position, number_of_columns), 0-based as in the code
get_border_indices(position, number_of_columns) ==
    LET row_ind == position \div number_of_columns
    IN [top    |-> position,
        right  |-> position + 1 + row_ind,
        bottom |-> position + number_of_columns,
        left   |-> position + row_ind]

\* end_point_pos without the fallback: the last segment ends where it starts
end_point_pos_no_fallback(ind, segments, fallback) ==
    IF ind < Len(segments) - 1 THEN segments[ind + 2] ELSE segments[ind + 1]

\* end_point_pos with the last end taken as the last start plus the
\* distance of the first two starts
end_point_pos_uniform(ind, segments, fallback) ==
    IF ind < Len(segments) - 1 THEN segments[ind + 2]
    ELSE IF Len(segments) >= 2 THEN segments[ind + 1] + segments[2] - segments[1]
    ELSE fallback

\* end_point_pos(ind, segments, fallback), ind 0-based
end_point_pos(ind, segments, fallback) ==
    IF ind < Len(segments) - 1 THEN segments[ind + 2] ELSE fallback

---------------------------------------------------------------------------
(* JigsawPiece::new: the outline, its bounding box and the crop rectangle *)

\* sampling resolution of the bounding box: every curve is evaluated at
\* t = k / BoxSamples, k = 0..BoxSamples
BoxSamples == 4
\* a bounding box coordinate is an integer number of 1 / BoxUnit hundredths
BoxUnit == BoxSamples * BoxSamples * BoxSamples

\* BoxUnit * B(k / BoxSamples) for one coordinate of a Bezier curve
bezier_at(bz, k, ax) ==
    LET m == BoxSamples - k
    IN IF Len(bz) = 2
       THEN (BoxUnit \div BoxSamples) * (m * bz[1][ax] + k * bz[2][ax])
       ELSE m * m * m * bz[1][ax] + 3 * m * m * k * bz[2][ax]
            + 3 * m * k * k * bz[3][ax] + k * k * k * bz[4][ax]

\* the points of the outline the bounding box is taken over, one coordinate
subpath_samples(beziers, ax) ==
    {bezier_at(beziers[n], k, ax) : n \in 1..Len(beziers), k \in 0..BoxSamples}

SetMin(S) == CHOOSE x \in S : \A y \in S : x <= y
SetMax(S) == CHOOSE x \in S : \A y \in S : x >= y

\* Subpath::bounding_box (bezier_rs): the extent of the curve itself, not of
\* its handles.  The model takes it over the sampled points, which are the
\* curve's extremes when jitter is 0 (the extremes are then at t = 1/2).
bounding_box(beziers) ==
    IF Len(beziers) = 0
    THEN [some |-> FALSE]
    ELSE [some |-> TRUE,
          min  |-> <<SetMin(subpath_samples(beziers, 1)),
                     SetMin(subpath_samples(beziers, 2))>>,
          max  |-> <<SetMax(subpath_samples(beziers, 1)),
                     SetMax(subpath_samples(beziers, 2))>>]

\* the common denominator of a bounding box coordinate (1 / (BoxUnit * 100)
\* pixels) and a piece offset (size * 0.01 = size / 10000 pixels)
CropDen == BoxUnit * Centi * Centi

\* (box_min - size * 0.01).max(0.0) as u32
crop_origin(box_min, size) ==
    Max2(box_min * Centi - size * BoxUnit, 0) \div CropDen

\* (box_max - box_min + 2.0 * size * 0.01).max(size) as u32
crop_extent(box_min, box_max, size) ==
    Max2((box_max - box_min) * Centi + 2 * size * BoxUnit,
         size * BoxUnit * Centi) \div CropDen

\* the clamp: if top_left + crop > image { crop = image - top_left }.  The
\* subtraction is a u32 subtraction: when top_left > image it overflows, and
\* the result written here, a negative number v, stands for the wrapped
\* value 2^32 + v.
crop_clamp(top_left, crop, image) ==
    IF top_left + crop > image THEN image - top_left ELSE crop

Flatten(ss) ==
    ss[1] \o ss[2] \o ss[3] \o ss[4]

\* JigsawPiece::new(..) for an outline that has a bounding box
JigsawPiece_new(index, start_point, origin_image_size, piece_size, top_edge, right_edge, bottom_edge, left_edge) ==
    LET beziers == Flatten(<<Edge_to_beziers(top_edge, FALSE),
                             Edge_to_beziers(right_edge, FALSE),
                             Edge_to_beziers(bottom_edge, TRUE),
                             Edge_to_beziers(left_edge, TRUE)>>)
        bb == bounding_box(beziers)
        image_width  == origin_image_size[1]
        image_height == origin_image_size[2]
        piece_width  == piece_size[1]
        piece_height == piece_size[2]
        top_left_x == crop_origin(bb.min[1], piece_width)
        top_left_y == crop_origin(bb.min[2], piece_height)
        crop_width  == crop_extent(bb.min[1], bb.max[1], piece_width)
        crop_height == crop_extent(bb.min[2], bb.max[2], piece_height)
    IN [index       |-> index,
        start_point |-> start_point,
        subpath     |-> beziers,
        width       |-> piece_width,
        height      |-> piece_height,
        top_left_x  |-> top_left_x,
        top_left_y  |-> top_left_y,
        crop_width  |-> crop_clamp(top_left_x, crop_width, image_width),
        crop_height |-> crop_clamp(top_left_y, crop_height, image_height),
        top_edge    |-> top_edge,
        right_edge  |-> right_edge,
        bottom_edge |-> bottom_edge,
        left_edge   |-> left_edge]

\* the u32 subtraction of the clamp overflowed for this piece
crop_overflowed(piece) == piece.crop_width < 0 \/ piece.crop_height < 0

---------------------------------------------------------------------------
(* JigsawGenerator::generate as a state machine, one record per run *)

Input(w, h, cols, rows, tab_size, jitter, seed) ==
    [image_width |-> w, image_height |-> h,
     pieces_in_column |-> cols, pieces_in_row |-> rows,
     tab_size |-> tab_size, jitter |-> jitter, seed |-> seed]

NoGenerator == [panic |-> TRUE]

\* JigsawGenerator::new(..) with its setters applied: nothing generated yet
NewRun(inp) ==
    [pc |-> "start", inp |-> inp,
     starting_points_x |-> <<>>, piece_width |-> 0,
     starting_points_y |-> <<>>, piece_height |-> 0,
     contour_gen |-> NoGenerator,
     vertical_edges |-> <<>>, horizontal_edges |-> <<>>,
     top_border |-> TRUE, left_border |-> TRUE,
     index_y |-> 0, index_x |-> 0,
     pieces |-> <<>>, i |-> 0,
     creates |-> <<>>]

\* where the edge loops continue once the row loop is at index_y
row_pc(index_y, ny, nx) ==
    IF index_y >= ny THEN "bottom"
    ELSE IF nx = 0 THEN "right_border" ELSE "horizontal"

\* lines 650-662: the two divide_axis calls and EdgeContourGenerator::new
Start(r) ==
    /\ run[r].pc = "start"
    /\ LET inp == run[r].inp
           dx == divide_axis(inp.image_width, inp.pieces_in_column)
           dy == divide_axis(inp.image_height, inp.pieces_in_row)
           gen == EdgeContourGenerator_new(dx.piece_length, dy.piece_length,
                                           inp.tab_size, inp.jitter, inp.seed)
       IN run' = [run EXCEPT ![r] =
              IF gen.panic
              THEN [@ EXCEPT !.pc = "panic",
                             !.starting_points_x = dx.points,
                             !.piece_width = dx.piece_length,
                             !.starting_points_y = dy.points,
                             !.piece_height = dy.piece_length]
              ELSE [@ EXCEPT !.pc = row_pc(0, Len(dy.points), Len(dx.points)),
                             !.starting_points_x = dx.points,
                             !.piece_width = dx.piece_length,
                             !.starting_points_y = dy.points,
                             !.piece_height = dy.piece_length,
                             !.contour_gen = gen]]
    /\ UNCHANGED lay

\* lines 669-683: the horizontal edge of cell (index_y, index_x)
PushHorizontal(r) ==
    /\ run[r].pc = "horizontal"
    /\ LET s == run[r]
           xs == s.starting_points_x
           ys == s.starting_points_y
           sp == <<xs[s.index_x + 1], ys[s.index_y + 1]>>
           ep == <<end_point_pos(s.index_x, xs, s.inp.image_width * Centi),
                   ys[s.index_y + 1]>>
       IN run' = [run EXCEPT ![r] =
              IF s.top_border
              THEN [@ EXCEPT !.pc = "vertical",
                             !.horizontal_edges =
                                 Append(@, StraightEdge(<<sp[1], 0>>, <<ep[1], 0>>))]
              ELSE [@ EXCEPT !.pc = "vertical",
                             !.horizontal_edges =
                                 Append(@, create_edge(s.contour_gen, sp, ep)),
                             !.contour_gen = create_state(s.contour_gen),
                             !.creates =
                                 Append(@, create_edge(s.contour_gen, sp, ep))]]
    /\ UNCHANGED lay

\* lines 684-702: the vertical edge of cell (index_y, index_x)
PushVertical(r) ==
    /\ run[r].pc = "vertical"
    /\ LET s == run[r]
           xs == s.starting_points_x
           ys == s.starting_points_y
           sp == <<xs[s.index_x + 1], ys[s.index_y + 1]>>
           ep == <<xs[s.index_x + 1],
                   end_point_pos(s.index_y, ys, s.inp.image_height * Centi)>>
           more == s.index_x + 1 < Len(xs)
       IN run' = [run EXCEPT ![r] =
              IF s.left_border
              THEN [@ EXCEPT !.pc = IF more THEN "horizontal" ELSE "right_border",
                             !.index_x = @ + 1,
                             !.left_border = FALSE,
                             !.vertical_edges =
                                 Append(@, StraightEdge(<<0, sp[2]>>, <<0, ep[2]>>))]
              ELSE [@ EXCEPT !.pc = IF more THEN "horizontal" ELSE "right_border",
                             !.index_x = @ + 1,
                             !.left_border = FALSE,
                             !.vertical_edges =
                                 Append(@, create_edge(s.contour_gen, sp, ep)),
                             !.contour_gen = create_state(s.contour_gen),
                             !.creates =
                                 Append(@, create_edge(s.contour_gen, sp, ep))]]
    /\ UNCHANGED lay

\* lines 704-712: the right outer edge of row index_y, then the next row
PushRightBorder(r) ==
    /\ run[r].pc = "right_border"
    /\ LET s == run[r]
           ys == s.starting_points_y
           w == s.inp.image_width * Centi
           edge == StraightEdge(
                       <<w, ys[s.index_y + 1]>>,
                       <<w, end_point_pos(s.index_y, ys,
                                          s.inp.image_height * Centi)>>)
       IN run' = [run EXCEPT ![r] =
              [@ EXCEPT !.pc = row_pc(s.index_y + 1, Len(ys),
                                      Len(s.starting_points_x)),
                        !.index_y = @ + 1,
                        !.index_x = 0,
                        !.top_border = FALSE,
                        !.left_border = TRUE,
                        !.vertical_edges = Append(@, edge)]]
    /\ UNCHANGED lay

\* the bottom outer edges drawn on the last pixel row, height - 1
bottom_edges_last_row(xs, image_width, image_height) ==
    [k \in 1..Len(xs) |->
        StraightEdge(<<xs[k], image_height - Centi>>,
                     <<end_point_pos(k - 1, xs, image_width),
                       image_height - Centi>>)]

\* the bottom outer edges, lines 716-724
bottom_edges(xs, image_width, image_height) ==
    [k \in 1..Len(xs) |->
        StraightEdge(<<xs[k], image_height>>,
                     <<end_point_pos(k - 1, xs, image_width), image_height>>)]

PushBottomEdges(r) ==
    /\ run[r].pc = "bottom"
    /\ LET s == run[r]
       IN run' = [run EXCEPT ![r] =
              [@ EXCEPT !.pc = "pieces",
                        !.horizontal_edges =
                            @ \o bottom_edges(s.starting_points_x,
                                              s.inp.image_width * Centi,
                                              s.inp.image_height * Centi)]]
    /\ UNCHANGED lay

pieces_total(s) == Len(s.starting_points_x) * Len(s.starting_points_y)

\* the piece generate() builds for position i (lines 731-742)
generate_piece(s, i) ==
    LET nx == Len(s.starting_points_x)
        x == s.starting_points_x[(i % nx) + 1]
        y == s.starting_points_y[(i \div nx) + 1]
        ix == get_border_indices(i, s.inp.pieces_in_column)
    IN JigsawPiece_new(i, <<x, y>>,
                       <<s.inp.image_width, s.inp.image_height>>,
                       <<s.piece_width, s.piece_height>>,
                       s.horizontal_edges[ix.top + 1],
                       s.vertical_edges[ix.right + 1],
                       s.horizontal_edges[ix.bottom + 1],
                       s.vertical_edges[ix.left + 1])

\* lines 728-752: one piece.  An overflowing u32 subtraction panics in a
\* build with overflow checks and wraps in a build without them.
BuildPiece(r) ==
    /\ run[r].pc = "pieces"
    /\ run[r].i < pieces_total(run[r])
    /\ LET s == run[r]
           piece == generate_piece(s, s.i)
       IN \E checked \in IF crop_overflowed(piece) THEN BOOLEAN ELSE {FALSE} :
              run' = [run EXCEPT ![r] =
                  IF checked
                  THEN [@ EXCEPT !.pc = "panic"]
                  ELSE [@ EXCEPT !.pieces = Append(@, piece), !.i = @ + 1]]
    /\ UNCHANGED lay

\* lines 754-759: Ok(JigsawTemplate { .. })
Finish(r) ==
    /\ run[r].pc = "pieces"
    /\ run[r].i >= pieces_total(run[r])
    /\ run' = [run EXCEPT ![r] = [@ EXCEPT !.pc = "done"]]
    /\ UNCHANGED lay

Runs == DOMAIN run

Next ==
    \/ \E r \in Runs : Start(r)
    \/ \E r \in Runs : PushHorizontal(r)
    \/ \E r \in Runs : PushVertical(r)
    \/ \E r \in Runs : PushRightBorder(r)
    \/ \E r \in Runs : PushBottomEdges(r)
    \/ \E r \in Runs : BuildPiece(r)
    \/ \E r \in Runs : Finish(r)

---------------------------------------------------------------------------
(* Inputs *)

ImageWidths == {2, 10}
ImageHeights == {7, 10}
TabSizes == {None, Some(10), Some(30)}
Jitters == {None, Some(0), Some(13)}
Seeds == {None} \cup {Some(n) : n \in 0..MaxSeed}

\* the grids generated in full
GridInputs ==
    {Input(w, h, cols, rows, ts, ji, sd) :
        w \in ImageWidths, h \in ImageHeights,
        cols \in 1..MaxGrid, rows \in 1..MaxGrid,
        ts \in TabSizes, ji \in Jitters, sd \in Seeds}

\* tab_size or jitter outside its range
RangeInputs ==
    {Input(10, 10, 2, 2, ts, ji, None) :
        ts \in {Some(9), Some(20), Some(31)}, ji \in {Some(5), Some(14)}}

\* a two pixel wide image cut into columns narrower than 0.01 px
NarrowInputs == {Input(2, 1, ManyColumns, 1, None, None, None)}

\* no columns, no rows, or neither
ZeroInputs ==
    {Input(10, 7, 0, 2, None, None, None), Input(10, 7, 2, 0, None, None, None),
     Input(10, 7, 0, 0, None, None, None)}

Inputs == GridInputs \cup RangeInputs \cup NarrowInputs \cup ZeroInputs

LayIdle == [pc |-> "idle"]

Init ==
    /\ \E inp \in Inputs : run = [r \in {1} |-> NewRun(inp)]
    /\ lay = LayIdle

Spec == Init /\ [][Next]_vars

\* a one pixel image cut into so many columns, or rows, that the length of
\* a piece rounds to 0.00
TooManyPieces == 201

TooSmallInputs ==
    {Input(1, 1, TooManyPieces, 1, None, None, None),
     Input(1, 1, 1, TooManyPieces, None, None, None)}

InitTooSmall ==
    /\ \E inp \in TooSmallInputs : run = [r \in {1} |-> NewRun(inp)]
    /\ lay = LayIdle

SpecTooSmall == InitTooSmall /\ [][Next]_vars

---------------------------------------------------------------------------
(* build_jigsaw_template, the builder of the older library (src/src/lib.rs). *)
(* Its edge loops (lines 659-724) are the ones of generate, statement for    *)
(* statement, and so are its EdgeContourGenerator and its edges; its jitter  *)
(* defaults to 0.0, so the runs below always give the jitter.  Per tile it   *)
(* computes a rectangle in f64 and hands it to image.view as u32 values.     *)

\* the common denominator of a bounding box coordinate (1 / (BoxUnit * 100)
\* pixels) and a tile offset (size * 0.05 = size / 2000 pixels)
TileDen == BoxUnit * Centi * 20

\* (box_min - size * 0.05).max(0.0), in 1 / TileDen pixels
tile_origin(box_min, size) == Max2(box_min * 20 - size * BoxUnit, 0)

\* (box_max - box_min + 2.0 * size * 0.05).max(size), in 1 / TileDen pixels
tile_extent(box_min, box_max, size) ==
    Max2((box_max - box_min) * 20 + 2 * size * BoxUnit, size * BoxUnit * 20)

\* if top_left + extent > image { extent = image - top_left + 1.0 }
tile_clamp(top_left, extent, image) ==
    IF top_left + extent > image * TileDen
    THEN image * TileDen - top_left + TileDen
    ELSE extent

\* an f64 as u32: towards zero, and 0 for a negative value
f64_as_u32(num) == Max2(num, 0) \div TileDen

\* RawJigsawTile::new and the rectangle handed to image.view (lines 733-776)
template_tile(s, i) ==
    LET nx == Len(s.starting_points_x)
        ix == get_border_indices(i, s.inp.pieces_in_column)
        beziers == Flatten(<<Edge_to_beziers(s.horizontal_edges[ix.top + 1], FALSE),
                             Edge_to_beziers(s.vertical_edges[ix.right + 1], FALSE),
                             Edge_to_beziers(s.horizontal_edges[ix.bottom + 1], TRUE),
                             Edge_to_beziers(s.vertical_edges[ix.left + 1], TRUE)>>)
        bb == bounding_box(beziers)
        top_left_x == tile_origin(bb.min[1], s.piece_width)
        top_left_y == tile_origin(bb.min[2], s.piece_height)
        width == tile_clamp(top_left_x,
                            tile_extent(bb.min[1], bb.max[1], s.piece_width),
                            s.inp.image_width)
        height == tile_clamp(top_left_y,
                             tile_extent(bb.min[2], bb.max[2], s.piece_height),
                             s.inp.image_height)
    IN [index |-> i,
        starting_point |-> <<s.starting_points_x[(i % nx) + 1],
                             s.starting_points_y[(i \div nx) + 1]>>,
        x |-> f64_as_u32(top_left_x), y |-> f64_as_u32(top_left_y),
        width |-> f64_as_u32(width), height |-> f64_as_u32(height)]

\* the rectangle reaches beyond the image
view_exceeds(tile, inp) ==
    \/ tile.x + tile.width > inp.image_width
    \/ tile.y + tile.height > inp.image_height

\* one pass of the tile loop (lines 731-782).  What image.view does with a
\* rectangle that reaches beyond the image is decided by the image crate:
\* it may panic or go on.
BuildTile(r) ==
    /\ run[r].pc = "pieces"
    /\ run[r].i < pieces_total(run[r])
    /\ LET s == run[r]
           tile == template_tile(s, s.i)
       IN \E stops \in IF view_exceeds(tile, s.inp) THEN BOOLEAN ELSE {FALSE} :
              run' = [run EXCEPT ![r] =
                  [@ EXCEPT !.pc = IF stops THEN "panic" ELSE @,
                            !.pieces = Append(@, tile),
                            !.i = IF stops THEN @ ELSE @ + 1]]
    /\ UNCHANGED lay

\* the end of build_jigsaw_template
FinishTemplate(r) ==
    /\ run[r].pc = "pieces"
    /\ run[r].i >= pieces_total(run[r])
    /\ run' = [run EXCEPT ![r] = [@ EXCEPT !.pc = "done"]]
    /\ UNCHANGED lay

NextTemplate ==
    \/ \E r \in Runs : Start(r)
    \/ \E r \in Runs : PushHorizontal(r)
    \/ \E r \in Runs : PushVertical(r)
    \/ \E r \in Runs : PushRightBorder(r)
    \/ \E r \in Runs : PushBottomEdges(r)
    \/ \E r \in Runs : BuildTile(r)
    \/ \E r \in Runs : FinishTemplate(r)

TemplateInputs ==
    {Input(w, h, cols, rows, ts, Some(0), sd) :
        w \in ImageWidths, h \in ImageHeights,
        cols \in 1..MaxGrid, rows \in 1..MaxGrid,
        ts \in TabSizes, sd \in Seeds}

InitTemplate ==
    /\ \E inp \in TemplateInputs : run = [r \in {1} |-> NewRun(inp)]
    /\ lay = LayIdle

SpecTemplate == InitTemplate /\ [][NextTemplate]_vars

\* two independent runs of generate on the same input
TwoRunInputs ==
    {Input(10, 7, cols, rows, None, ji, sd) :
        cols \in {1, 2}, rows \in {1, 2}, ji \in {None, Some(13)}, sd \in Seeds}

InitTwoRuns ==
    /\ \E inp \in TwoRunInputs : run = [r \in {1, 2} |-> NewRun(inp)]
    /\ lay = LayIdle

SpecTwoRuns == InitTwoRuns /\ [][Next]_vars

---------------------------------------------------------------------------
(* The layout search: generate_columns_rows_numbers = find_divisors, then  *)
(* optimal_aspect_ratio                                                    *)

\* the mirrored pairs without the filter a # b
RECURSIVE mirrored_unfiltered(_)
mirrored_unfiltered(pairs) ==
    IF pairs = <<>> THEN <<>>
    ELSE Append(mirrored_unfiltered(Tail(pairs)), <<pairs[1][2], pairs[1][1]>>)

\* the mirrored pairs of find_divisors (lines 476-481): the pairs with
\* a # b, swapped, in reverse order
RECURSIVE mirrored(_)
mirrored(pairs) ==
    IF pairs = <<>> THEN <<>>
    ELSE LET p == pairs[1]
         IN IF p[1] # p[2]
            THEN Append(mirrored(Tail(pairs)), <<p[2], p[1]>>)
            ELSE mirrored(Tail(pairs))

\* |image_width / x - image_height / y| as the fraction n / d
width_height_diff_of(image_width, image_height, x, y) ==
    [max |-> FALSE, n |-> Abs(image_width * y - image_height * x), d |-> x * y]

F32_MAX == [max |-> TRUE, n |-> 0, d |-> 1]

\* p < 1. for a finite difference
diff_below_one(p) == p.n < p.d

\* p >= q, q finite
diff_ge(p, q) == p.max \/ p.n * q.d >= q.n * p.d

diff_eq(p, q) == p.n * q.d = q.n * p.d

\* the loop iteration returning the candidate at hand, not the best so far,
\* at the first increase
scan_candidate_returns_current(st, x, y) ==
    LET new_width_height_diff ==
            width_height_diff_of(st.image_width, st.image_height, x, y)
    IN IF diff_below_one(new_width_height_diff)
       THEN [st EXCEPT !.pc = "done", !.result = <<x, y>>]
       ELSE IF diff_ge(st.width_height_diff, new_width_height_diff)
       THEN [st EXCEPT !.width_height_diff = new_width_height_diff,
                       !.number_of_pieces = <<x, y>>,
                       !.k = @ + 1]
       ELSE [st EXCEPT !.pc = "done", !.result = <<x, y>>]

\* the loop iteration with > in place of >=: a tie ends the search
scan_candidate_strict(st, x, y) ==
    LET new_width_height_diff ==
            width_height_diff_of(st.image_width, st.image_height, x, y)
    IN IF diff_below_one(new_width_height_diff)
       THEN [st EXCEPT !.pc = "done", !.result = <<x, y>>]
       ELSE IF st.width_height_diff.max
               \/ st.width_height_diff.n * new_width_height_diff.d
                      > new_width_height_diff.n * st.width_height_diff.d
       THEN [st EXCEPT !.width_height_diff = new_width_height_diff,
                       !.number_of_pieces = <<x, y>>,
                       !.k = @ + 1]
       ELSE [st EXCEPT !.pc = "done", !.result = st.number_of_pieces]

\* one iteration of the loop of optimal_aspect_ratio (lines 497-510) for the
\* candidate (x, y): the search's next state
scan_candidate(st, x, y) ==
    LET new_width_height_diff ==
            width_height_diff_of(st.image_width, st.image_height, x, y)
    IN IF diff_below_one(new_width_height_diff)
       THEN [st EXCEPT !.pc = "done", !.result = <<x, y>>]
       ELSE IF diff_ge(st.width_height_diff, new_width_height_diff)
       THEN [st EXCEPT !.width_height_diff = new_width_height_diff,
                       !.number_of_pieces = <<x, y>>,
                       !.k = @ + 1]
       ELSE [st EXCEPT !.pc = "done", !.result = st.number_of_pieces]

NewLayout(w, h, num) ==
    [pc |-> "divisors", image_width |-> w, image_height |-> h, num |-> num,
     i |-> 1, divisor_pairs |-> <<>>,
     k |-> 1, width_height_diff |-> F32_MAX, number_of_pieces |-> <<0, 0>>,
     result |-> <<0, 0>>]

\* the loop of find_divisors leaving at i * i >= num
DivisorStep_leaves_early ==
    /\ lay.pc = "divisors"
    /\ lay' = IF lay.i * lay.i >= lay.num
              THEN [lay EXCEPT !.pc = "mirror"]
              ELSE IF lay.num % lay.i = 0
              THEN [lay EXCEPT !.divisor_pairs =
                                   Append(@, <<lay.i, lay.num \div lay.i>>),
                               !.i = @ + 1]
              ELSE [lay EXCEPT !.i = @ + 1]
    /\ UNCHANGED run

\* one iteration of the loop of find_divisors (lines 468-475)
DivisorStep ==
    /\ lay.pc = "divisors"
    /\ lay' = IF lay.i * lay.i > lay.num
              THEN [lay EXCEPT !.pc = "mirror"]
              ELSE IF lay.num % lay.i = 0
              THEN [lay EXCEPT !.divisor_pairs =
                                   Append(@, <<lay.i, lay.num \div lay.i>>),
                               !.i = @ + 1]
              ELSE [lay EXCEPT !.i = @ + 1]
    /\ UNCHANGED run

\* lines 476-483 and the entry of optimal_aspect_ratio (lines 493-496)
MirrorStep ==
    /\ lay.pc = "mirror"
    /\ LET pairs == lay.divisor_pairs \o mirrored(lay.divisor_pairs)
       IN lay' = IF pairs = <<>>
                 THEN [lay EXCEPT !.pc = "error", !.divisor_pairs = pairs]
                 ELSE [lay EXCEPT !.pc = "scan", !.divisor_pairs = pairs,
                                  !.number_of_pieces = pairs[1]]
    /\ UNCHANGED run

ScanStep ==
    /\ lay.pc = "scan"
    /\ lay.k <= Len(lay.divisor_pairs)
    /\ lay' = scan_candidate(lay, lay.divisor_pairs[lay.k][1],
                             lay.divisor_pairs[lay.k][2])
    /\ UNCHANGED run

\* line 511: the loop ran to its end
ScanEnd ==
    /\ lay.pc = "scan"
    /\ lay.k > Len(lay.divisor_pairs)
    /\ lay' = [lay EXCEPT !.pc = "done", !.result = lay.number_of_pieces]
    /\ UNCHANGED run

NextLayout == DivisorStep \/ MirrorStep \/ ScanStep \/ ScanEnd

LayoutImages == {<<666, 666>>, <<1024, 768>>, <<6, 6>>, <<100, 210>>, <<7, 3>>}

NoRun == [r \in {1} |-> [pc |-> "idle"]]

InitLayout ==
    /\ \E im \in LayoutImages, num \in 0..MaxPieces :
           lay = NewLayout(im[1], im[2], num)
    /\ run = NoRun

SpecLayout == InitLayout /\ [][NextLayout]_vars

---------------------------------------------------------------------------
(* divide_axis on its own: one call per axis length and piece count *)

MaxAxisPieces == 20
AxisLengths == {1, 2, 3, 7, 10, 100, 333, 1000}

NewAxis(length, piece_num) ==
    [pc |-> "axis", length |-> length, piece_num |-> piece_num,
     points |-> <<>>, piece_length |-> 0, ends |-> <<>>]

DivideAxis ==
    /\ lay.pc = "axis"
    /\ LET res == divide_axis(lay.length, lay.piece_num)
       IN lay' = [lay EXCEPT !.pc = "axis_done",
                             !.points = res.points,
                             !.piece_length = res.piece_length]
    /\ UNCHANGED run

\* the end of every segment as generate takes it (lines 673, 679, 691, 698)
SegmentEnds ==
    /\ lay.pc = "axis_done"
    /\ lay' = [lay EXCEPT
           !.pc = "axis_ends",
           !.ends = [k \in 1..Len(lay.points) |->
                        end_point_pos(k - 1, lay.points, lay.length * Centi)]]
    /\ UNCHANGED run

NextAxis ==
    \/ DivideAxis
    \/ SegmentEnds

InitAxis ==
    /\ \E length \in AxisLengths, piece_num \in 0..MaxAxisPieces :
           lay = NewAxis(length, piece_num)
    /\ run = NoRun

SpecAxis == InitAxis /\ [][NextAxis]_vars

---------------------------------------------------------------------------
(* The range checks of EdgeContourGenerator::new at the resolution of f32. *)
(* Here a tab_size or a jitter is an f32 given as an integer number of     *)
(* 2^-20 (every f32 between 8 and 16 is one, every second one between 16   *)
(* and 32).  The asserts compare the f32 quotient, the exact quotient      *)
(* rounded to the nearest f32, ties to the even mantissa, with the f32     *)
(* nearest to the literal.                                                 *)

F32Unit == 1048576

\* the f32 nearest to 0.05 as a multiple of 2^-28 (odd mantissa), and the
\* f32 nearest to 0.15 and to 0.13 as multiples of 2^-26 (even mantissas)
F32_0_05 == 13421773
F32_0_15 == 10066330
F32_0_13 == 8724152

\* the check of the tab size with the upper bound excluded, 0.05..0.15
tab_size_accepted_exclusive(tab_size) ==
    /\ 64 * tab_size > 25 * (2 * F32_0_05 - 1)
    /\ 16 * tab_size < 25 * (2 * F32_0_15 - 1)

\* (0.05..=0.15).contains(&(tab_size / 200.0)): the quotient rounds to
\* 0.05f32 or more iff it lies above the midpoint below 0.05f32 (a tie
\* goes down, to the even mantissa), and to 0.15f32 or less iff it lies at
\* or below the midpoint above 0.15f32
tab_size_accepted(tab_size) ==
    /\ 64 * tab_size > 25 * (2 * F32_0_05 - 1)
    /\ 16 * tab_size <= 25 * (2 * F32_0_15 + 1)

\* (0.0..=0.13).contains(&(jitter / 100.0)) for a jitter that is 0 or at
\* least 2^-20 in magnitude (its quotient does not underflow)
jitter_accepted(jitter) ==
    /\ jitter >= 0
    /\ 32 * jitter <= 25 * (2 * F32_0_13 + 1)

NewRange(tab_size, jitter) ==
    [pc |-> "range", tab_size |-> tab_size, jitter |-> jitter]

\* lines 159-162: the defaults, the divisions and the two asserts
CheckRange ==
    /\ lay.pc = "range"
    /\ LET tab_size == unwrap_or(lay.tab_size, DEFAULT_TAB_SIZE * F32Unit)
           jitter == unwrap_or(lay.jitter, DEFAULT_JITTER * F32Unit)
       IN lay' = [lay EXCEPT !.pc =
                      IF tab_size_accepted(tab_size) /\ jitter_accepted(jitter)
                      THEN "range_ok" ELSE "range_panic"]
    /\ UNCHANGED run

NextRange == CheckRange

\* whole numbers inside and outside the ranges, the bounds, and the f32
\* values next to the bounds
RangeTabSizes ==
    {None} \cup
    {Some(v) : v \in {9 * F32Unit, 10 * F32Unit - 1, 10 * F32Unit,
                      10 * F32Unit + 1, 20 * F32Unit, 30 * F32Unit - 2,
                      30 * F32Unit, 30 * F32Unit + 2, 30 * F32Unit + 4,
                      31 * F32Unit}}

RangeJitters ==
    {None} \cup
    {Some(v) : v \in {-F32Unit, -1, 0, 1, 5 * F32Unit, 13 * F32Unit - 1,
                      13 * F32Unit, 13 * F32Unit + 1, 14 * F32Unit}}

InitRange ==
    /\ \E tab_size \in RangeTabSizes, jitter \in RangeJitters :
           lay = NewRange(tab_size, jitter)
    /\ run = NoRun

SpecRange == InitRange /\ [][NextRange]_vars

---------------------------------------------------------------------------
(* One EdgeContourGenerator and its create calls.  The seed is a usize: a  *)
(* value 2^64 - k is written -k, so that a wrapping addition is the        *)
(* addition of the model; an addition that overflows panics in a build     *)
(* with overflow checks and wraps in a build without them.                 *)

\* a < b as usize
usize_lt(a, b) == IF (a < 0) = (b < 0) THEN a < b ELSE b < 0

\* one of the additions seed + 1 .. seed + by overflows
usize_overflows(seed, by) == seed < 0 /\ seed + by >= 0

\* new adds up to 2 + 6 to the seed it is given (lines 164-165, 212),
\* create adds up to 2 + 6 to self.seed (lines 374, 212)
SeedAdvance == 8

MaxCreates == 3

SeedInputs == {None, Some(0), Some(1), Some(-30), Some(-10), Some(-1)}
SeedJitters == {None, Some(0), Some(13)}
CreatePoints == {<<<<0, 0>>, <<10 * Centi, 0>>>>, <<<<0, 0>>, <<0, 7 * Centi>>>>}

NewSeed(jitter, seed) ==
    [pc |-> "seed_new", jitter |-> jitter, seed |-> seed,
     generator |-> [panic |-> TRUE], first |-> [panic |-> TRUE],
     drawn |-> <<>>, before |-> [panic |-> TRUE], edge |-> <<>>, creates |-> 0]

\* the seeds new draws a random value from, in the order of the draws
new_draws(seed) ==
    <<seed + 1, seed + 2, seed + 4, seed + 5, seed + 6, seed + 7>>

\* the seeds create draws a random value from, in the order of the draws
create_draws(self) ==
    <<self.seed + 2, self.seed + 4, self.seed + 5, self.seed + 6, self.seed + 7>>

\* EdgeContourGenerator::new(10.0, 7.0, None, jitter, seed)
NewGenerator ==
    /\ lay.pc = "seed_new"
    /\ LET s0 == unwrap_or(lay.seed, 0)
           g == EdgeContourGenerator_new(10 * Centi, 7 * Centi, None,
                                         lay.jitter, lay.seed)
       IN \/ /\ usize_overflows(s0, SeedAdvance)
             /\ lay' = [lay EXCEPT !.pc = "seed_panic"]
          \/ lay' = [lay EXCEPT !.pc = "seed_ready",
                                !.generator = g, !.first = g, !.before = g,
                                !.drawn = new_draws(s0)]
    /\ UNCHANGED run

\* create(starting_point, end_point) on the generator
CreateEdge ==
    /\ lay.pc = "seed_ready"
    /\ lay.creates < MaxCreates
    /\ \E pts \in CreatePoints :
           \/ /\ usize_overflows(lay.generator.seed, SeedAdvance)
              /\ lay' = [lay EXCEPT !.pc = "seed_panic",
                                    !.before = lay.generator]
           \/ lay' = [lay EXCEPT
                  !.generator = create_state(lay.generator),
                  !.before = lay.generator,
                  !.edge = create_edge(lay.generator, pts[1], pts[2]),
                  !.drawn = @ \o create_draws(lay.generator),
                  !.creates = @ + 1]
    /\ UNCHANGED run

NextSeed ==
    \/ NewGenerator
    \/ CreateEdge

InitSeed ==
    /\ run = NoRun
    /\ \E jitter \in SeedJitters, seed \in SeedInputs : lay = NewSeed(jitter, seed)

SpecSeed == InitSeed /\ [][NextSeed]_vars

---------------------------------------------------------------------------
(* Adjacency of pieces (JigsawPiece::is_on_the_.._side) and the handlers   *)
(* of the game that move a piece and snap it (gameplay.rs).  A translation *)
(* is <<x, y, z>> with x and y in hundredths of a pixel, y pointing up.    *)

COMPARE_THRESHOLD == 10

on_the_left_side(self, other) == self.right_edge = other.left_edge
on_the_right_side(self, other) == self.left_edge = other.right_edge
on_the_top_side(self, other) == self.bottom_edge = other.top_edge
on_the_bottom_side(self, other) == self.top_edge = other.bottom_edge

\* beside without the test of the right side
beside_three_sides(self, other) ==
    \/ on_the_top_side(self, other)
    \/ on_the_bottom_side(self, other)
    \/ on_the_left_side(self, other)

\* beside (lines 1045-1050)
beside(self, other) ==
    \/ on_the_top_side(self, other)
    \/ on_the_bottom_side(self, other)
    \/ on_the_left_side(self, other)
    \/ on_the_right_side(self, other)

\* is_on_the_left_side with || between the position test and the edge test
is_on_the_left_side_either(self, other, self_loc, other_loc) ==
    \/ /\ Abs(self_loc[1] + self.width - other_loc[1]) < COMPARE_THRESHOLD * Centi
       /\ Abs(self_loc[2] - other_loc[2]) < COMPARE_THRESHOLD * Centi
    \/ on_the_left_side(self, other)

is_on_the_left_side(self, other, self_loc, other_loc) ==
    IF /\ Abs(self_loc[1] + self.width - other_loc[1]) < COMPARE_THRESHOLD * Centi
       /\ Abs(self_loc[2] - other_loc[2]) < COMPARE_THRESHOLD * Centi
    THEN on_the_left_side(self, other)
    ELSE FALSE

is_on_the_right_side(self, other, self_loc, other_loc) ==
    IF /\ Abs(other_loc[1] + other.width - self_loc[1]) < COMPARE_THRESHOLD * Centi
       /\ Abs(self_loc[2] - other_loc[2]) < COMPARE_THRESHOLD * Centi
    THEN on_the_right_side(self, other)
    ELSE FALSE

is_on_the_top_side(self, other, self_loc, other_loc) ==
    IF /\ Abs(other_loc[2] + other.height - self_loc[2]) < COMPARE_THRESHOLD * Centi
       /\ Abs(self_loc[1] - other_loc[1]) < COMPARE_THRESHOLD * Centi
    THEN on_the_top_side(self, other)
    ELSE FALSE

is_on_the_bottom_side(self, other, self_loc, other_loc) ==
    IF /\ Abs(other_loc[2] - other.height - self_loc[2]) < COMPARE_THRESHOLD * Centi
       /\ Abs(self_loc[1] - other_loc[1]) < COMPARE_THRESHOLD * Centi
    THEN on_the_bottom_side(self, other)
    ELSE FALSE

\* is_edge looking at the top and the left edge only
is_edge_top_left(piece) ==
    \/ piece.top_edge.kind = "StraightEdge"
    \/ piece.left_edge.kind = "StraightEdge"

is_edge(piece) ==
    \/ piece.top_edge.kind = "StraightEdge"
    \/ piece.right_edge.kind = "StraightEdge"
    \/ piece.bottom_edge.kind = "StraightEdge"
    \/ piece.left_edge.kind = "StraightEdge"

\* the game plays the template of run 1; a piece is named by its index
PlayRun == 1
Entities == 0..(Len(run[PlayRun].pieces) - 1)
PieceOf(entity) == run[PlayRun].pieces[entity + 1]

MaxMoves == 1

\* the distance between the pieces when they are spread out, in pixels
Spread == 60

\* by how many pixels the cursor may miss the place next to a piece
DropErrors == {<<0, 0>>, <<9, -9>>, <<10, 0>>, <<0, -10>>}

\* budget is the number of moves of the player that are followed, errors
\* the misses of the cursor that are tried
NewPlay ==
    [pc |-> "generating", game_state |-> "Generating",
     translation |-> <<>>, move_together |-> <<>>,
     moving |-> 0, all_entities |-> {},
     before |-> <<0, 0>>, hits |-> {}, moves |-> 0,
     budget |-> MaxMoves, errors |-> DropErrors]

\* spawn_piece for a finished template, Shuffle and the change to Play: the
\* pieces lie spread out, z is the index, no piece moves with another
EnterPlay ==
    /\ lay.pc = "generating"
    /\ run[PlayRun].pc = "done"
    /\ lay' = [lay EXCEPT
           !.pc = "idle",
           !.game_state = "Play",
           !.translation = [k \in 1..Len(run[PlayRun].pieces) |->
                               <<(k - 1) * Spread * Centi, 0, k - 1>>],
           !.move_together = [k \in 1..Len(run[PlayRun].pieces) |-> {}]]
    /\ UNCHANGED run

\* on_drag_start: the piece is lifted and gets MoveStart
OnDragStart ==
    /\ lay.pc = "idle"
    /\ lay.game_state = "Play"
    /\ lay.moves < lay.budget
    /\ \E entity \in Entities :
           lay' = [lay EXCEPT !.pc = "drag",
                              !.moving = entity,
                              !.translation[entity + 1][3] = 100]
    /\ UNCHANGED run

\* where the cursor may take a piece: next to another piece on one of its
\* four sides, exactly or off by an error, or far from every piece
DropPoints(entity) ==
    {<<-500 * Centi, -500 * Centi>>} \cup
    UNION {{<<lay.translation[o + 1][1] + side[1] + err[1] * Centi,
              lay.translation[o + 1][2] + side[2] + err[2] * Centi>> :
               side \in {<<-PieceOf(entity).width, 0>>, <<PieceOf(o).width, 0>>,
                         <<0, PieceOf(entity).height>>, <<0, -PieceOf(o).height>>},
               err \in lay.errors} : o \in Entities \ {entity}}

\* move_piece: the piece with MoveStart follows the cursor, and every
\* other piece of its MoveTogether moves by the same offset
MovePiece ==
    /\ lay.pc = "drag"
    /\ \E move_end \in DropPoints(lay.moving) :
           LET t == lay.translation[lay.moving + 1]
               offset == <<move_end[1] - t[1], move_end[2] - t[2]>>
           IN lay' = [lay EXCEPT
                  !.pc = "dragged",
                  !.translation = [k \in DOMAIN lay.translation |->
                      IF k = lay.moving + 1
                      THEN <<move_end[1], move_end[2], t[3]>>
                      ELSE IF (k - 1) \in lay.move_together[lay.moving + 1]
                      THEN <<lay.translation[k][1] + offset[1],
                             lay.translation[k][2] + offset[2],
                             lay.translation[k][3]>>
                      ELSE lay.translation[k]]]
    /\ UNCHANGED run

\* on_drag_end: the piece is put down and MoveEnd is triggered for it
OnDragEnd ==
    /\ lay.pc \in {"drag", "dragged"}
    /\ lay' = [lay EXCEPT !.pc = "move_end",
                          !.translation[lay.moving + 1][3] = 0]
    /\ UNCHANGED run

\* all orders in which a query can yield the entities of S
Orders(S) ==
    {s \in [1..Cardinality(S) -> S] :
        \A i, j \in 1..Cardinality(S) : i # j => s[i] # s[j]}

\* the two pieces of the pair alone, without the pieces that move with them
merged_set_pair(together1, together2, e1, e2) == {e1, e2}

\* merged_set (lines 629-631): the union of the two MoveTogether sets and
\* the two entities
merged_set(together1, together2, e1, e2) ==
    together1 \cup together2 \cup {e1, e2}

\* one pass of the loop of on_move_end (lines 583-631) for the pair of the
\* moved piece and the piece compare; acc is the moved piece's x and y,
\* max_z, all_entities and the adjacency tests that returned true
move_end_pair(st, target, compare, acc) ==
    LET tp == PieceOf(target)
        cp == PieceOf(compare)
        ct == st.translation[compare + 1]
        target_loc == acc.xy
        compare_loc == <<ct[1], ct[2]>>
        reach == Max2(tp.crop_width, tp.crop_height) * Centi
        dx == Abs(target_loc[1] - ct[1])
        dy == Abs(target_loc[2] - ct[2])
        near == dx < reach /\ dy < reach /\ dx * dx + dy * dy < reach * reach
        left == is_on_the_left_side(tp, cp, target_loc, compare_loc)
        right == is_on_the_right_side(tp, cp, target_loc, compare_loc)
        top == is_on_the_top_side(tp, cp, target_loc, compare_loc)
        bottom == is_on_the_bottom_side(tp, cp, target_loc, compare_loc)
        xy1 == IF left THEN <<ct[1] - tp.width, ct[2]>> ELSE target_loc
        xy2 == IF right THEN <<ct[1] + cp.width, ct[2]>> ELSE xy1
        xy3 == IF top THEN <<ct[1], ct[2] + tp.height>> ELSE xy2
        xy4 == IF bottom THEN <<ct[1], ct[2] - cp.height>> ELSE xy3
        has_snapped == left \/ right \/ top \/ bottom
        sides == {s \in {"left", "right", "top", "bottom"} :
                     \/ s = "left" /\ left
                     \/ s = "right" /\ right
                     \/ s = "top" /\ top
                     \/ s = "bottom" /\ bottom}
    IN [xy |-> xy4,
        max_z |-> IF near THEN Max2(acc.max_z, ct[3]) ELSE acc.max_z,
        all_entities |->
            IF has_snapped
            THEN acc.all_entities \cup
                     merged_set(st.move_together[target + 1],
                                st.move_together[compare + 1], target, compare)
            ELSE acc.all_entities,
        hits |-> acc.hits \cup
                     {[other |-> compare, side |-> s, self_loc |-> target_loc,
                       other_loc |-> compare_loc] : s \in sides}]

\* the loop of on_move_end over the pairs that hold the moved piece
RECURSIVE move_end_loop(_, _, _, _)
move_end_loop(st, target, others, acc) ==
    IF others = <<>> THEN acc
    ELSE move_end_loop(st, target, Tail(others),
                       move_end_pair(st, target, others[1], acc))

\* on_move_end (lines 556-647)
OnMoveEnd ==
    /\ lay.pc = "move_end"
    /\ \E others \in Orders(Entities \ {lay.moving}) :
           LET t == lay.translation[lay.moving + 1]
               res == move_end_loop(lay, lay.moving, others,
                          [xy |-> <<t[1], t[2]>>, max_z |-> 0,
                           all_entities |-> {}, hits |-> {}])
           IN lay' = [lay EXCEPT
                  !.pc = "combine",
                  !.game_state =
                      IF Cardinality(res.all_entities) = Cardinality(Entities)
                      THEN "Finish" ELSE @,
                  !.translation[lay.moving + 1] =
                      <<res.xy[1], res.xy[2], res.max_z + 1>>,
                  !.all_entities = res.all_entities,
                  !.before = <<t[1], t[2]>>,
                  !.hits = res.hits]
    /\ UNCHANGED run

\* combine_together (lines 652-658), the observer of CombineTogether
CombineTogether ==
    /\ lay.pc = "combine"
    /\ lay' = [lay EXCEPT
           !.pc = "idle",
           !.moves = @ + 1,
           !.move_together = [k \in DOMAIN lay.move_together |->
               IF (k - 1) \in lay.all_entities
               THEN lay.all_entities ELSE lay.move_together[k]]]
    /\ UNCHANGED run

NextPlay ==
    \/ Next
    \/ EnterPlay
    \/ OnDragStart
    \/ MovePiece
    \/ OnDragEnd
    \/ OnMoveEnd
    \/ CombineTogether

PlayInputs == {Input(40, 30, 2, 2, None, None, None)}

InitPlay ==
    /\ \E inp \in PlayInputs : run = [r \in {PlayRun} |-> NewRun(inp)]
    /\ lay = NewPlay

SpecPlay == InitPlay /\ [][NextPlay]_vars

\* a game of three pieces in a row followed for more moves, the cursor
\* dropping a piece exactly next to another or far from all
MaxGroupMoves == 2

GroupInputs == {Input(40, 30, 3, 1, None, None, None)}

InitGroups ==
    /\ \E inp \in GroupInputs : run = [r \in {PlayRun} |-> NewRun(inp)]
    /\ lay = [NewPlay EXCEPT !.budget = MaxGroupMoves, !.errors = {<<0, 0>>}]

SpecGroups == InitGroups /\ [][NextPlay]_vars

---------------------------------------------------------------------------
(* The Generating state of the game (gameplay.rs): spawn_piece spawns one  *)
(* entity per piece and a thread that crops the pieces one after the other *)
(* and sends a command queue for each into a flume channel; every frame    *)
(* PostUpdate runs handle_tasks and count_spawned_piece, in no fixed order, *)
(* and the commands handle_tasks has appended are applied at its end.  A   *)
(* command queue is named by the entity it was built for.                  *)

\* bounded(template.pieces.len()) without room for the last message
channel_capacity_short(pieces) == Len(pieces) - 1

\* bounded(template.pieces.len()), line 310
channel_capacity(pieces) == Len(pieces)

\* count_spawned_piece going on as soon as one piece is loaded
all_loaded_first(loaded_pieces, pieces_count) == loaded_pieces >= 1

\* loaded_pieces == generator.pieces_count(), line 453
all_loaded(loaded_pieces, pieces_count) == loaded_pieces = pieces_count

\* JigsawGenerator::pieces_count
pieces_count(inp) == inp.pieces_in_column * inp.pieces_in_row

\* image.view of crop accepts the rectangle of the piece
crop_in_image(piece, inp) ==
    /\ piece.crop_width >= 0 /\ piece.crop_height >= 0
    /\ piece.top_left_x + piece.crop_width <= inp.image_width
    /\ piece.top_left_y + piece.crop_height <= inp.image_height

NewCrop ==
    [pc |-> "setup", game_state |-> "Generating", next_state |-> "none",
     thread |-> [pc |-> "none", k |-> 0],
     capacity |-> 0, channel |-> <<>>, commands |-> <<>>,
     crop_task |-> {}, color |-> <<>>, white |-> <<>>,
     visits |-> 0, handled |-> FALSE, counted |-> FALSE]

\* spawn_piece (lines 304-413) once generate has returned Ok: an entity
\* with a CropTask for every piece, the channel, and the thread if there is
\* a piece to crop
SpawnPiece ==
    /\ lay.pc = "setup"
    /\ run[PlayRun].pc = "done"
    /\ LET pieces == run[PlayRun].pieces
       IN lay' = [lay EXCEPT
              !.pc = "frames",
              !.capacity = channel_capacity(pieces),
              !.crop_task = {p - 1 : p \in 1..Len(pieces)},
              !.color = [p \in 1..Len(pieces) |-> 0],
              !.white = [p \in 1..Len(pieces) |-> 0],
              !.thread = IF Len(pieces) > 0 THEN [pc |-> "crop", k |-> 0]
                         ELSE [pc |-> "none", k |-> 0]]
    /\ UNCHANGED run

\* the thread crops the next piece (line 343); a rectangle outside the
\* image makes image.view panic, which ends the thread
ThreadCrop ==
    /\ lay.thread.pc = "crop"
    /\ lay' = [lay EXCEPT !.thread.pc =
                   IF crop_in_image(PieceOf(lay.thread.k), run[PlayRun].inp)
                   THEN "send" ELSE "dead"]
    /\ UNCHANGED run

\* tx.send(command_queue) (line 405): it blocks while the channel is full
ThreadSend ==
    /\ lay.thread.pc = "send"
    /\ Len(lay.channel) < lay.capacity
    /\ lay' = [lay EXCEPT
           !.channel = Append(@, lay.thread.k),
           !.thread = [pc |-> IF lay.thread.k + 1 < Len(run[PlayRun].pieces)
                              THEN "crop" ELSE "finished",
                       k |-> lay.thread.k + 1]]
    /\ UNCHANGED run

InGenerating == lay.pc = "frames" /\ lay.game_state = "Generating"

\* handle_tasks (lines 437-443), one pass of its outer loop: the CropTask it
\* visits drains whatever the channel holds into the commands
HandleTasks ==
    /\ InGenerating
    /\ ~lay.handled
    /\ IF lay.visits < Cardinality(lay.crop_task)
       THEN lay' = [lay EXCEPT
                !.commands = @ \o lay.channel,
                !.channel = <<>>,
                !.visits = @ + 1,
                !.handled = (lay.visits + 1 = Cardinality(lay.crop_task))]
       ELSE lay' = [lay EXCEPT !.handled = TRUE]
    /\ UNCHANGED run

\* the ColorImage entities of the world
loaded_pieces(color) ==
    Cardinality({<<p, c>> \in (DOMAIN color) \X (1..Len(color)) : c <= color[p]})

\* count_spawned_piece (lines 445-456)
CountSpawnedPiece ==
    /\ InGenerating
    /\ ~lay.counted
    /\ LET loaded == loaded_pieces(lay.color)
       IN lay' = [lay EXCEPT
              !.counted = TRUE,
              !.next_state = IF all_loaded(loaded, pieces_count(run[PlayRun].inp))
                             THEN "Play" ELSE @]
    /\ UNCHANGED run

\* the command queue built for an entity, applied to the world (lines
\* 346-403): a ColorImage and a WhiteImage child more, the CropTask removed
RECURSIVE apply_commands(_, _)
apply_commands(st, commands) ==
    IF commands = <<>> THEN st
    ELSE LET entity == Head(commands)
         IN apply_commands(
                [st EXCEPT !.color[entity + 1] = @ + 1,
                           !.white[entity + 1] = @ + 1,
                           !.crop_task = @ \ {entity}],
                Tail(commands))

\* the end of a frame: the commands of handle_tasks are applied, and a
\* state that was requested is entered before the next frame
EndFrame ==
    /\ InGenerating
    /\ lay.handled /\ lay.counted
    /\ lay' = [apply_commands(lay, lay.commands) EXCEPT
           !.commands = <<>>,
           !.visits = 0, !.handled = FALSE, !.counted = FALSE,
           !.game_state = IF lay.next_state = "Play" THEN "Play" ELSE @,
           !.next_state = "none"]
    /\ UNCHANGED run

NextCrop ==
    \/ Next
    \/ SpawnPiece
    \/ ThreadCrop
    \/ ThreadSend
    \/ HandleTasks
    \/ CountSpawnedPiece
    \/ EndFrame

MaxCropColumns == 2

MaxCropRows == 2

CropInputs ==
    {Input(40, 30, cols, rows, None, None, None) :
        cols \in 1..MaxCropColumns, rows \in 1..MaxCropRows}

InitCrop ==
    /\ \E inp \in CropInputs : run = [r \in {PlayRun} |-> NewRun(inp)]
    /\ lay = NewCrop

SpecCrop == InitCrop /\ [][NextCrop]_vars

\* spawn_piece goes on after generate has returned; the thread keeps being
\* scheduled, and so does every system of the frame
SpecCropFair ==
    /\ SpecCrop
    /\ WF_vars(SpawnPiece)
    /\ WF_vars(ThreadCrop)
    /\ WF_vars(ThreadSend)
    /\ WF_vars(HandleTasks)
    /\ WF_vars(CountSpawnedPiece)
    /\ WF_vars(EndFrame)

---------------------------------------------------------------------------
(* Properties of generate *)

Done(r) == run[r].pc = "done"
Cols(r) == run[r].inp.pieces_in_column
Rows(r) == run[r].inp.pieces_in_row
\* the piece at 0-based position i of run r
Piece(r, i) == run[r].pieces[i + 1]
Positions(r) == 0..(Len(run[r].pieces) - 1)
ColOf(r, i) == i % Cols(r)
RowOf(r, i) == i \div Cols(r)

\* the edges of a piece, without its crop fields
PieceEdges(p) == <<p.top_edge, p.right_edge, p.bottom_edge, p.left_edge>>

C2_EdgeSharing ==
    \A r \in Runs : Done(r) =>
        \A i \in Positions(r) :
            /\ ColOf(r, i) < Cols(r) - 1 =>
                   Piece(r, i).right_edge = Piece(r, i + 1).left_edge
            /\ RowOf(r, i) < Rows(r) - 1 =>
                   Piece(r, i).bottom_edge = Piece(r, i + Cols(r)).top_edge

\* a finished grid with pieces that have both a right and a lower neighbour
C2_Witness ==
    \E r \in Runs :
        /\ Done(r) /\ Cols(r) >= 2 /\ Rows(r) >= 3
        /\ Piece(r, 0).right_edge.kind = "IndentedEdge"
        /\ Piece(r, Cols(r)).bottom_edge.kind = "IndentedEdge"

IsStraight(e) == e.kind = "StraightEdge"
IsIndented(e) == e.kind = "IndentedEdge"

\* both ends of a straight edge have the value v in coordinate ax
OnLine(e, ax, v) == e.starting_point[ax] = v /\ e.end_point[ax] = v

\* the sides (position, side) of the pieces of run r that hold edge e
Holders(r, e) ==
    {h \in Positions(r) \X (1..4) : PieceEdges(Piece(r, h[1]))[h[2]] = e}

\* C3 (tiling structure): in a finished template a piece's top, bottom,
\* left, right edge is a StraightEdge exactly when the piece is in the first
\* row, last row, first column, last column, and it then lies on y = 0,
\* y = image height, x = 0, x = image width; every other edge is an
\* IndentedEdge made by exactly one create call and held by exactly two
\* pieces, and create was called (rows-1)*cols + rows*(cols-1) times.
C3_TilingStructure ==
    \A r \in Runs : (Done(r) /\ Cols(r) >= 1 /\ Rows(r) >= 1) =>
        LET w == run[r].inp.image_width * Centi
            h == run[r].inp.image_height * Centi
        IN /\ Len(run[r].pieces) = Cols(r) * Rows(r)
           /\ \A i \in Positions(r) :
                  LET p == Piece(r, i)
                  IN /\ IsStraight(p.top_edge) <=> RowOf(r, i) = 0
                     /\ IsStraight(p.bottom_edge) <=> RowOf(r, i) = Rows(r) - 1
                     /\ IsStraight(p.left_edge) <=> ColOf(r, i) = 0
                     /\ IsStraight(p.right_edge) <=> ColOf(r, i) = Cols(r) - 1
                     /\ IsStraight(p.top_edge) => OnLine(p.top_edge, 2, 0)
                     /\ IsStraight(p.bottom_edge) => OnLine(p.bottom_edge, 2, h)
                     /\ IsStraight(p.left_edge) => OnLine(p.left_edge, 1, 0)
                     /\ IsStraight(p.right_edge) => OnLine(p.right_edge, 1, w)
                     /\ \A k \in 1..4 :
                            LET e == PieceEdges(p)[k]
                            IN ~IsStraight(e) =>
                                   /\ IsIndented(e)
                                   /\ Cardinality({c \in 1..Len(run[r].creates) :
                                                     run[r].creates[c] = e}) = 1
           /\ Len(run[r].creates) =
                  (Rows(r) - 1) * Cols(r) + Rows(r) * (Cols(r) - 1)
           /\ \A c \in 1..Len(run[r].creates) :
                  Cardinality(Holders(r, run[r].creates[c])) = 2

\* a finished grid with interior pieces and an inexact row height
C3_Witness ==
    \E r \in Runs :
        /\ Done(r) /\ Cols(r) = 3 /\ Rows(r) = 3
        /\ run[r].inp.image_height = 10
        /\ ~IsStraight(Piece(r, 4).top_edge) /\ ~IsStraight(Piece(r, 4).left_edge)
        /\ IsStraight(Piece(r, 8).bottom_edge)

\* C4 (closed outline): the outline of every piece, top and right edge
\* forward, bottom and left edge reversed, starts at the piece's start_point,
\* every segment ends where the next one starts, and the last segment ends
\* at start_point.
C4_ClosedOutline ==
    \A r \in Runs : \A i \in Positions(r) :
        LET p == Piece(r, i)
            sp == p.subpath
        IN /\ Len(sp) >= 4
           /\ bezier_start(sp[1]) = p.start_point
           /\ \A k \in 1..(Len(sp) - 1) :
                  bezier_end(sp[k]) = bezier_start(sp[k + 1])
           /\ bezier_end(sp[Len(sp)]) = p.start_point

\* an interior piece (four indented edges, twelve curves) of a grid whose
\* last column and row are not of the uniform size
C4_Witness ==
    \E r \in Runs : \E i \in Positions(r) :
        /\ Len(Piece(r, i).subpath) = 12
        /\ run[r].inp.image_width = 10 /\ run[r].inp.image_height = 10
        /\ Cols(r) = 3 /\ Rows(r) = 3

\* C5 (crop inside image): for every piece top_left_x + crop_width <= image
\* width and top_left_y + crop_height <= image height, the origin and the
\* size being u32 values (a negative crop size stands for a wrapped one).
C5_CropInsideImage ==
    \A r \in Runs : \A i \in Positions(r) :
        LET p == Piece(r, i)
        IN /\ p.top_left_x >= 0 /\ p.top_left_y >= 0
           /\ p.crop_width >= 0 /\ p.crop_height >= 0
           /\ p.top_left_x + p.crop_width <= run[r].inp.image_width
           /\ p.top_left_y + p.crop_height <= run[r].inp.image_height

\* C6 (crop contains the nominal rectangle): for every piece the crop
\* rectangle contains [start_x, start_x + piece_width] x
\* [start_y, start_y + piece_height], clipped to the image.
C6_CropContainsNominal ==
    \A r \in Runs : \A i \in Positions(r) :
        LET p == Piece(r, i)
            w == run[r].inp.image_width * Centi
            h == run[r].inp.image_height * Centi
        IN /\ p.top_left_x * Centi <= p.start_point[1]
           /\ p.top_left_y * Centi <= p.start_point[2]
           /\ (p.top_left_x + p.crop_width) * Centi
                  >= Min2(p.start_point[1] + p.width, w)
           /\ (p.top_left_y + p.crop_height) * Centi
                  >= Min2(p.start_point[2] + p.height, h)

\* C7 (minimum crop size): for every piece crop_width >= piece_width and
\* crop_height >= piece_height.
C7_MinimumCropSize ==
    \A r \in Runs : \A i \in Positions(r) :
        LET p == Piece(r, i)
        IN /\ p.crop_width * Centi >= p.width
           /\ p.crop_height * Centi >= p.height

---------------------------------------------------------------------------
(* Properties of the layout search *)

\* all ordered pairs of positive integers with product num
DivisorPairs(num) == {p \in (1..num) \X (1..num) : p[1] * p[2] = num}

\* find_divisors has returned
DivisorsFound == lay.pc \in {"scan", "done"}

\* C8 (find_divisors): for num >= 1 the result holds exactly the ordered
\* pairs (a, b) with a * b = num, each once, by strictly increasing a, from
\* (1, num) to (num, 1); 24, 9 and 1 give the lists of the test.
C8_FindDivisors ==
    (DivisorsFound /\ lay.num >= 1) =>
        LET dp == lay.divisor_pairs
        IN /\ {dp[k] : k \in 1..Len(dp)} = DivisorPairs(lay.num)
           /\ \A k \in 1..(Len(dp) - 1) : dp[k][1] < dp[k + 1][1]
           /\ dp[1] = <<1, lay.num>> /\ dp[Len(dp)] = <<lay.num, 1>>
           /\ lay.num = 24 =>
                  dp = << <<1, 24>>, <<2, 12>>, <<3, 8>>, <<4, 6>>,
                          <<6, 4>>, <<8, 3>>, <<12, 2>>, <<24, 1>> >>
           /\ lay.num = 9 => dp = << <<1, 9>>, <<3, 3>>, <<9, 1>> >>
           /\ lay.num = 1 => dp = << <<1, 1>> >>

\* the divisors of a square number with nine divisor pairs were found
C8_Witness == DivisorsFound /\ lay.num = 36 /\ Len(lay.divisor_pairs) = 9

\* |W / x - H / y| of a pair for the image of the search
DiffOf(p) == width_height_diff_of(lay.image_width, lay.image_height, p[1], p[2])

\* C9 (early stop equals exhaustive search): the pair optimal_aspect_ratio
\* returns for find_divisors(num) has a difference below 1 if any divisor
\* pair has one, and otherwise a difference that no divisor pair undercuts;
\* 666 x 666 with 24 pieces gives (6, 4), 1024 x 768 with 25 gives (5, 5).
C9_EarlyStopIsExhaustive ==
    lay.pc = "done" =>
        /\ lay.result \in DivisorPairs(lay.num)
        /\ IF \E p \in DivisorPairs(lay.num) : diff_below_one(DiffOf(p))
           THEN diff_below_one(DiffOf(lay.result))
           ELSE \A p \in DivisorPairs(lay.num) :
                    diff_ge(DiffOf(p), DiffOf(lay.result))
        /\ (lay.image_width = 666 /\ lay.image_height = 666 /\ lay.num = 24)
               => lay.result = <<6, 4>>
        /\ (lay.image_width = 1024 /\ lay.image_height = 768 /\ lay.num = 25)
               => lay.result = <<5, 5>>

\* the search stopped at the first increase, before the end of the list
C9_Witness ==
    /\ lay.pc = "done"
    /\ lay.k < Len(lay.divisor_pairs)
    /\ ~diff_below_one(DiffOf(lay.result))
    /\ lay.num = 36

\* pieces of the returned layout: width W / cols, height H / rows
ResultIsSquare == lay.image_width * lay.result[2] = lay.image_height * lay.result[1]
ResultIsLandscape == lay.image_width * lay.result[2] >= lay.image_height * lay.result[1]

LayoutFailed == lay.pc = "error"
LayoutReturned == lay.pc = "done"

\* C11 (no valid layout only for 0 pieces): generate_columns_rows_numbers
\* returns the error exactly when the number of pieces is 0 (the divisor
\* list is then empty); for every number of pieces >= 1 the divisor list is
\* not empty and the call returns Ok((cols, rows)) with cols * rows equal to
\* the number of pieces.
C11_ErrorIffZeroPieces ==
    /\ LayoutFailed => lay.num = 0
    /\ (lay.pc \in {"scan", "done"}) => (lay.num >= 1 /\ lay.divisor_pairs # <<>>)
    /\ LayoutReturned => lay.result[1] * lay.result[2] = lay.num

\* the call for 0 pieces has returned the error
C11_Witness == LayoutFailed /\ lay.num = 0 /\ lay.divisor_pairs = <<>>

\* the parameters of run r as EdgeContourGenerator::new checks them
ParametersInRange(r) ==
    /\ tab_size_in_range(
           (unwrap_or(run[r].inp.tab_size, DEFAULT_TAB_SIZE) * CoefUnit) \div 200)
    /\ jitter_in_range(
           (unwrap_or(run[r].inp.jitter, DEFAULT_JITTER) * CoefUnit) \div 100)

\* C15 (errors are values): when tab_size or jitter is outside its range,
\* generate returns an error value to its caller and never panics.
C15_RangeErrorIsValue ==
    \A r \in Runs : ~ParametersInRange(r) => run[r].pc # "panic"

\* run r holds a generator: EdgeContourGenerator::new has returned
HasGenerator(r) == ~run[r].contour_gen.panic

\* the coefficients b, c, d, e of the generator of run r
JitterCoefficients(r) ==
    {run[r].contour_gen.b, run[r].contour_gen.c,
     run[r].contour_gen.d, run[r].contour_gen.e}

---------------------------------------------------------------------------
(* Properties of divide_axis *)

AxisDone == lay.pc = "axis_done"

\* s, in hundredths, is length / piece_num rounded to two decimal places
IsRound2(s, length, piece_num) ==
    2 * Abs(s * piece_num - Centi * length) <= piece_num

\* C12 (divide_axis): for a length > 0 and piece_num >= 1 the call returns
\* exactly piece_num offsets and the length s = round2(length / piece_num);
\* offset i is round2(i * s), the first offset is 0, and for s > 0 the
\* offsets are strictly increasing, hence pairwise distinct; 1000 cut into
\* 4 gives s = 250 and the offsets 0, 250, 500, 750.
C12_DivideAxis ==
    (AxisDone /\ lay.piece_num >= 1) =>
        /\ Len(lay.points) = lay.piece_num
        /\ IsRound2(lay.piece_length, lay.length, lay.piece_num)
        /\ lay.points[1] = 0
        /\ \A i \in 1..lay.piece_num :
               lay.points[i] = (i - 1) * lay.piece_length
        /\ lay.piece_length > 0 =>
               \A i \in 1..(lay.piece_num - 1) : lay.points[i] < lay.points[i + 1]
        /\ (lay.length = 1000 /\ lay.piece_num = 4) =>
               /\ lay.piece_length = 250 * Centi
               /\ lay.points = <<0, 250 * Centi, 500 * Centi, 750 * Centi>>

\* an axis was cut into pieces whose length is not a whole number of
\* hundredths before rounding
C12_Witness ==
    /\ AxisDone
    /\ lay.length = 10 /\ lay.piece_num = 3
    /\ lay.points = <<0, 333, 666>>

---------------------------------------------------------------------------
(* Properties of the entry of generate *)

\* C13 (no pieces on an axis): cutting an axis into 0 pieces fails, so
\* generate with 0 columns or 0 rows never returns a template.
C13_ZeroPiecesFail ==
    \A r \in Runs : Done(r) => (Cols(r) >= 1 /\ Rows(r) >= 1)

---------------------------------------------------------------------------
(* Properties of the range checks *)

RangeChecked == lay.pc \in {"range_ok", "range_panic"}

\* the values the checks are applied to: an absent value is its default
TabSizeGiven == unwrap_or(lay.tab_size, DEFAULT_TAB_SIZE * F32Unit)
JitterGiven == unwrap_or(lay.jitter, DEFAULT_JITTER * F32Unit)

TabSizeInClosedRange ==
    10 * F32Unit <= TabSizeGiven /\ TabSizeGiven <= 30 * F32Unit
JitterInClosedRange ==
    0 <= JitterGiven /\ JitterGiven <= 13 * F32Unit

---------------------------------------------------------------------------
(* Properties of is_edge *)

OnOuterBorder(r, i) ==
    \/ RowOf(r, i) = 0
    \/ RowOf(r, i) = Rows(r) - 1
    \/ ColOf(r, i) = 0
    \/ ColOf(r, i) = Cols(r) - 1

\* C18: is_edge() is true for a piece of a generated template exactly when
\* the piece is in the first or last row or the first or last column,
\* which is exactly when at least one of its four edges is a StraightEdge
C18_IsEdgeIffBorder ==
    \A r \in Runs : Done(r) =>
        \A i \in Positions(r) :
            /\ is_edge(Piece(r, i)) <=> OnOuterBorder(r, i)
            /\ is_edge(Piece(r, i)) <=>
                   \E k \in 1..4 : IsStraight(PieceEdges(Piece(r, i))[k])

\* a grid with an interior piece, and a border piece whose only straight
\* edges are the right and the bottom one
C18_Witness ==
    \E r \in Runs :
        /\ Done(r) /\ Cols(r) = 3 /\ Rows(r) = 3
        /\ ~is_edge(Piece(r, 4))
        /\ is_edge(Piece(r, 8))
        /\ ~IsStraight(Piece(r, 8).top_edge)
        /\ ~IsStraight(Piece(r, 8).left_edge)

---------------------------------------------------------------------------
(* Properties of the adjacency tests and of on_move_end *)

Loc(entity) == <<lay.translation[entity + 1][1], lay.translation[entity + 1][2]>>

\* where on_move_end puts the moved piece for a side (lines 602-624)
SnapPosition(side, self, other, other_loc) ==
    CASE side = "left" -> <<other_loc[1] - self.width, other_loc[2]>>
      [] side = "right" -> <<other_loc[1] + other.width, other_loc[2]>>
      [] side = "top" -> <<other_loc[1], other_loc[2] + self.height>>
      [] side = "bottom" -> <<other_loc[1], other_loc[2] - other.height>>

FacingEdgesEqual(side, self, other) ==
    CASE side = "left" -> self.right_edge = other.left_edge
      [] side = "right" -> self.left_edge = other.right_edge
      [] side = "top" -> self.bottom_edge = other.top_edge
      [] side = "bottom" -> self.top_edge = other.bottom_edge

WithinThreshold(side, self, other, self_loc, other_loc) ==
    LET snap == SnapPosition(side, self, other, other_loc)
    IN /\ Abs(self_loc[1] - snap[1]) < COMPARE_THRESHOLD * Centi
       /\ Abs(self_loc[2] - snap[2]) < COMPARE_THRESHOLD * Centi

IsOnTheSide(side, self, other, self_loc, other_loc) ==
    CASE side = "left" -> is_on_the_left_side(self, other, self_loc, other_loc)
      [] side = "right" -> is_on_the_right_side(self, other, self_loc, other_loc)
      [] side = "top" -> is_on_the_top_side(self, other, self_loc, other_loc)
      [] side = "bottom" -> is_on_the_bottom_side(self, other, self_loc, other_loc)

Sides == {"left", "right", "top", "bottom"}
Placed == lay.pc \in {"idle", "drag", "dragged", "move_end", "combine"}
MoveEnded == lay.pc = "combine"

\* C17: each of the four adjacency tests is true only if the two positions
\* are within COMPARE_THRESHOLD of the fitting position on both axes and the
\* facing edges are structurally equal; and on_move_end changes the x or y
\* of the moved piece only when one of the tests returned true
C17_SnapOnlyWhenAdjacent ==
    /\ Placed =>
           \A a, b \in Entities : \A side \in Sides :
               (a # b /\ IsOnTheSide(side, PieceOf(a), PieceOf(b), Loc(a), Loc(b)))
                   => /\ WithinThreshold(side, PieceOf(a), PieceOf(b), Loc(a), Loc(b))
                      /\ FacingEdgesEqual(side, PieceOf(a), PieceOf(b))
    /\ MoveEnded =>
           /\ \A h \in lay.hits :
                  /\ WithinThreshold(h.side, PieceOf(lay.moving), PieceOf(h.other),
                                     h.self_loc, h.other_loc)
                  /\ FacingEdgesEqual(h.side, PieceOf(lay.moving), PieceOf(h.other))
           /\ Loc(lay.moving) # lay.before => lay.hits # {}

\* a piece dropped off its fitting position was moved by on_move_end
C17_Witness ==
    /\ MoveEnded
    /\ lay.hits # {}
    /\ Loc(lay.moving) # lay.before

---------------------------------------------------------------------------
(* Properties of create *)

Created == lay.pc = "seed_ready" /\ lay.creates >= 1
CreatePanicked == lay.pc = "seed_panic" /\ ~lay.before.panic

\* C19: every create call advances the state of the generator: it returns
\* (it does not panic), the seed after it is strictly greater than before,
\* no seed value has been used for more than one random draw since the
\* construction, and piece_width, piece_height, tab_size and jitter are
\* the ones of the construction
C19_CreateAdvancesSeed ==
    /\ ~CreatePanicked
    /\ Created =>
           /\ usize_lt(lay.before.seed, lay.generator.seed)
           /\ \A i, j \in 1..Len(lay.drawn) : i # j => lay.drawn[i] # lay.drawn[j]
           /\ lay.generator.piece_width = lay.first.piece_width
           /\ lay.generator.piece_height = lay.first.piece_height
           /\ lay.generator.tab_size = lay.first.tab_size
           /\ lay.generator.jitter = lay.first.jitter

---------------------------------------------------------------------------
(* Properties of the order of the create calls *)

\* the edges generate pushes inside its two loops, in row-major order of
\* the cells, for each cell the horizontal (top) edge and then the vertical
\* (left) edge
PushOrder(cols, rows) ==
    [k \in 1..(2 * cols * rows) |->
        [row |-> ((k - 1) \div 2) \div cols,
         col |-> ((k - 1) \div 2) % cols,
         vertical |-> (k - 1) % 2 = 1]]

\* an edge that is not on the top or the left border is made by create
IsInterior(c) == IF c.vertical THEN c.col > 0 ELSE c.row > 0

CreateOrder(cols, rows) == SelectSeq(PushOrder(cols, rows), IsInterior)

\* the end points of the create call c of a run with the given input
ExpectedEnds(inp, c) ==
    LET xs == divide_axis(inp.image_width, inp.pieces_in_column).points
        ys == divide_axis(inp.image_height, inp.pieces_in_row).points
        x1 == IF c.col + 1 < Len(xs) THEN xs[c.col + 2] ELSE inp.image_width * Centi
        y1 == IF c.row + 1 < Len(ys) THEN ys[c.row + 2] ELSE inp.image_height * Centi
    IN [starting_point |-> <<xs[c.col + 1], ys[c.row + 1]>>,
        end_point |-> IF c.vertical THEN <<xs[c.col + 1], y1>>
                      ELSE <<x1, ys[c.row + 1]>>]

\* C21: at every point of generate the create calls made so far are the
\* first ones of the row-major order of the cells, horizontal before
\* vertical within a cell, and the k-th call has the end points of the k-th
\* interior edge of that order, which (columns, rows) fix
C21_CreateOrder ==
    \A r \in Runs : (Cols(r) >= 1 /\ Rows(r) >= 1) =>
        LET order == CreateOrder(Cols(r), Rows(r))
        IN /\ Len(run[r].creates) <= Len(order)
           /\ Done(r) => Len(run[r].creates) = Len(order)
           /\ \A k \in 1..Len(run[r].creates) :
                  LET ends == ExpectedEnds(run[r].inp, order[k])
                      edge == run[r].creates[k]
                  IN /\ edge.first_segment.starting_point = ends.starting_point
                     /\ edge.last_segment.end_point = ends.end_point

\* a 3 x 3 grid in the middle of its second row: the last create was the
\* vertical edge of cell (1, 1), the one before the horizontal edge of it
C21_Witness ==
    \E r \in Runs :
        /\ Cols(r) = 3 /\ Rows(r) = 3
        /\ run[r].pc = "horizontal" /\ run[r].index_y = 1 /\ run[r].index_x = 2
        /\ Len(run[r].creates) = 5
        /\ run[r].creates[5].first_segment.starting_point[1]
               = run[r].creates[5].last_segment.end_point[1]
        /\ run[r].creates[4].first_segment.starting_point[2]
               = run[r].creates[4].last_segment.end_point[2]

\* C22: after every create the coefficient a is -e_old when the flipped
\* drawn by the call equals the flipped the generator had before the call,
\* and +e_old otherwise, e_old being the e stored before the call
C22_SignFollowsPreviousFlipped ==
    Created =>
        lay.generator.a = IF lay.generator.flipped = lay.before.flipped
                          THEN -lay.before.e ELSE lay.before.e

---------------------------------------------------------------------------
(* Properties of the segments of an axis *)

AxisEnds == lay.pc = "axis_ends"

\* start, end and length of segment i (0-based), in hundredths
SegmentStart(i) == lay.points[i + 1]
SegmentEnd(i) == lay.ends[i + 1]
SegmentLength(i) == SegmentEnd(i) - SegmentStart(i)

\* C23: for piece_num >= 1 the end of every segment but the last is the
\* start of the next one, the end of the last segment is the length of the
\* axis itself, and every segment but the last has the length
\* round2(length / piece_num)
C23_SegmentEnds ==
    (AxisEnds /\ lay.piece_num >= 1) =>
        /\ Len(lay.ends) = lay.piece_num
        /\ \A i \in 0..(lay.piece_num - 2) :
               /\ SegmentEnd(i) = SegmentStart(i + 1)
               /\ SegmentLength(i) = lay.piece_length
        /\ SegmentEnd(lay.piece_num - 1) = lay.length * Centi
        /\ IsRound2(lay.piece_length, lay.length, lay.piece_num)

\* 10 cut into 3: the segments are 3.33, 3.33 and 3.34 long
C23_Witness ==
    /\ AxisEnds
    /\ lay.length = 10 /\ lay.piece_num = 3
    /\ SegmentLength(0) = 333
    /\ SegmentLength(2) = 334
    /\ SegmentLength(2) # lay.piece_length

---------------------------------------------------------------------------
(* Properties of generate for an image too small for its grid *)

\* the two divide_axis calls of the run have been made and a piece
\* dimension is 0.00
PieceDimensionIsZero(r) ==
    /\ run[r].pc # "start"
    /\ run[r].piece_width = 0 \/ run[r].piece_height = 0

\* C24: a generate whose piece width or piece height rounds to 0 returns an
\* error: it neither returns a template nor panics
C24_ImageTooSmall ==
    \A r \in Runs : PieceDimensionIsZero(r) => run[r].pc \notin {"done", "panic"}

---------------------------------------------------------------------------
(* Properties of build_jigsaw_template *)

\* C25: every rectangle build_jigsaw_template hands to image.view lies
\* inside the image: x + width <= image width and y + height <= image
\* height, also for grids of one column or one row
C25_TilesInsideImage ==
    \A r \in Runs : \A k \in 1..Len(run[r].pieces) :
        ~view_exceeds(run[r].pieces[k], run[r].inp)


---------------------------------------------------------------------------
(* Properties of the Generating state of the game *)

Spawned == lay.pc = "frames"

CropEntities == {p - 1 : p \in 1..Len(run[PlayRun].pieces)}

\* how many times the command queue of an entity stands in a sequence
Queued(commands, entity) ==
    Cardinality({k \in 1..Len(commands) : commands[k] = entity})

\* every entity has its two images and no CropTask, nothing is in flight
AllDelivered ==
    /\ \A entity \in CropEntities :
         /\ lay.color[entity + 1] = 1
         /\ lay.white[entity + 1] = 1
    /\ lay.crop_task = {}
    /\ lay.channel = <<>>
    /\ lay.commands = <<>>

SendNeverBlocks == lay.thread.pc = "send" => Len(lay.channel) < lay.capacity

ConsumedOnce ==
    \A entity \in CropEntities :
      /\ Queued(lay.channel, entity) + Queued(lay.commands, entity)
           + lay.color[entity + 1]
           = IF entity < lay.thread.k THEN 1 ELSE 0
      /\ lay.white[entity + 1] = lay.color[entity + 1]
      /\ entity \in lay.crop_task <=> lay.color[entity + 1] = 0

\* C26: the send of the crop thread never finds the channel full; the
\* command queue of a piece is, once sent, in the channel, among the
\* commands of the frame or applied to its own entity, never twice and never
\* lost; the game is in Play only when every entity has exactly one
\* ColorImage child, one WhiteImage child and no CropTask and nothing is
\* left in the channel; and under every fair interleaving that is how the
\* entities end.
C26_CropDelivery ==
    /\ [](Spawned => /\ SendNeverBlocks
                     /\ ConsumedOnce
                     /\ (lay.game_state = "Play" => AllDelivered))
    /\ Spawned ~> [](Spawned /\ AllDelivered)

C26_Witness ==
    /\ Spawned
    /\ Len(lay.channel) >= 1
    /\ Len(lay.commands) >= 1
    /\ \E entity \in CropEntities : lay.color[entity + 1] = 1
    /\ lay.thread.pc = "send"

---------------------------------------------------------------------------
(* Properties of the MoveTogether sets *)

InPlay == lay.pc \in {"idle", "drag", "dragged", "move_end", "combine"}

MoveTogether(entity) == lay.move_together[entity + 1]

\* the sets that are not empty are the blocks of a partition
GroupsPartition ==
    \A a \in Entities :
      /\ MoveTogether(a) = {} \/ a \in MoveTogether(a)
      /\ \A b \in MoveTogether(a) : MoveTogether(b) = MoveTogether(a)

\* C28: after any sequence of moves every MoveTogether set is empty or
\* holds its own piece, and a piece that is in the set of another has the
\* same set as the other; a move that snaps to nothing leaves every set as
\* it was.
C28_GroupsPartition ==
    /\ [](InPlay => GroupsPartition)
    /\ [][lay.pc = "combine" /\ lay.all_entities = {}
             => lay'.move_together = lay.move_together]_vars

\* a third piece has joined a group of two, another move has followed
C28_Witness ==
    /\ lay.pc = "idle"
    /\ lay.moves = 2
    /\ \A a \in Entities : MoveTogether(a) = Entities
    /\ Cardinality(Entities) = 3

---------------------------------------------------------------------------
(* Properties of beside *)

\* neighbours in a row or in a column of the grid
GridNeighbours(r, i, j) ==
    \/ RowOf(r, i) = RowOf(r, j) /\ Abs(ColOf(r, i) - ColOf(r, j)) = 1
    \/ ColOf(r, i) = ColOf(r, j) /\ Abs(RowOf(r, i) - RowOf(r, j)) = 1

PositiveDimensions(r) ==
    \A i \in Positions(r) : Piece(r, i).width > 0 /\ Piece(r, i).height > 0

\* C29: for two pieces of one template with positive piece dimensions,
\* beside is true exactly when the two are horizontal or vertical
\* neighbours in the grid, and it is symmetric.
C29_BesideIsAdjacency ==
    \A r \in Runs : Done(r) /\ PositiveDimensions(r) =>
        \A i, j \in Positions(r) :
            /\ beside(Piece(r, i), Piece(r, j)) <=> GridNeighbours(r, i, j)
            /\ beside(Piece(r, i), Piece(r, j)) <=> beside(Piece(r, j), Piece(r, i))

\* a 3 x 3 template: the middle piece is beside the four pieces around it,
\* two opposite corners are beside nothing they do not touch
C29_Witness ==
    \E r \in Runs :
        /\ Done(r) /\ PositiveDimensions(r) /\ Cols(r) = 3 /\ Rows(r) = 3
        /\ \A j \in {1, 3, 5, 7} : beside(Piece(r, 4), Piece(r, j))
        /\ ~beside(Piece(r, 0), Piece(r, 8))
        /\ ~beside(Piece(r, 0), Piece(r, 4))
        /\ ~beside(Piece(r, 2), Piece(r, 2))

---------------------------------------------------------------------------
(* Properties of the offsets of an axis *)

AxisDivided == lay.pc \in {"axis_done", "axis_ends"} /\ lay.piece_num >= 1

\* C30: for a length of at least one pixel and piece_num >= 1 every start
\* offset divide_axis returns lies in [0, length), the last one included, so
\* that every segment has a positive length.
C30_OffsetsInsideAxis ==
    AxisDivided /\ lay.length >= 1 =>
        \A k \in 1..Len(lay.points) :
            /\ 0 <= lay.points[k]
            /\ lay.points[k] < lay.length * Centi
=============================================================================
